---------------------------- MODULE Spec2Model ----------------------------
(***************************************************************************)
(* A model of the trampoline engine of cross.c: the three ABI code         *)
(* generators (System V AMD64, Win64, AArch64 AAPCS), the executable-memory *)
(* service, create_ffi_function / destroy_ffi_function and the dispatcher   *)
(* invoke_foreign_function.                                                 *)
(*                                                                         *)
(* The x86-64 generators are modelled byte for byte: each operator builds  *)
(* the sequence of bytes the C code stores through current_code_ptr.  The  *)
(* bytes are then decoded by the x86-64 encoding rules (Decode) and run on  *)
(* a small machine (Step), so that what a trampoline does is read off the  *)
(* bytes and not off the comments beside them.                              *)
(***************************************************************************)
EXTENDS Integers, Sequences, FiniteSets, TLC

NULL == "NULL"

\* a null pointer where an array is expected
NullArray == << NULL >>

\* a pointer to a buffer of bytes, or no buffer
NullBuffer == [null |-> TRUE, bytes |-> << >>]
Buffer(bytes) == [null |-> FALSE, bytes |-> bytes]

\* what a byte-emitting switch yields on "default: return 0"
Unsupported == << -1 >>

(***************************************************************************)
(* Bounds of the model.                                                     *)
(***************************************************************************)
\* longest run of one parameter type in a generated parameter list
MaxRun == 9
\* longest parameter list of all: its code is larger than the mapped region
MaxParams == 400

(***************************************************************************)
(* C integer operators on small naturals.                                   *)
(***************************************************************************)
RECURSIVE BitOr(_, _)
\* src/cross.c: the C operator | on non-negative ints
BitOr(a, b) ==
    IF a = 0 THEN b
    ELSE IF b = 0 THEN a
    ELSE (IF (a % 2 = 1) \/ (b % 2 = 1) THEN 1 ELSE 0) + 2 * BitOr(a \div 2, b \div 2)

RECURSIVE BitAndNot(_, _)
\* a & ~b on non-negative ints
BitAndNot(a, b) ==
    IF a = 0 THEN 0
    ELSE (IF (a % 2 = 1) /\ (b % 2 = 0) THEN 1 ELSE 0) + 2 * BitAndNot(a \div 2, b \div 2)

\* (unsigned char)x
U8(x) == x % 256

\* a << n
Shl(a, n) == a * (2 ^ n)

(***************************************************************************)
(* FFI_Type (cross.c:48-74).                                                *)
(***************************************************************************)
FFI_Type ==
    { "UNKNOWN", "VOID", "BOOL", "CHAR", "UCHAR", "SHORT", "USHORT", "INT", "UINT",
      "LONG", "ULONG", "LLONG", "ULLONG", "FLOAT", "DOUBLE", "POINTER", "WCHAR",
      "SIZE_T", "SCHAR", "SSHORT", "SINT", "SLONG", "SLLONG", "INT128", "UINT128" }

\* is_current_param_xmm_type
IsXmmType(t) == t \in {"FLOAT", "DOUBLE"}

\* is_current_param_int128_type
IsInt128Type(t) == t \in {"INT128", "UINT128"}

(***************************************************************************)
(* x86-64 instruction components (cross.c:146-257).                         *)
(***************************************************************************)
OPCODE_END_BRANCH_64 == 250
OPCODE_PUSH_RBP == 85
OPCODE_MOV_RM64_R64 == 137
OPCODE_MOV_R64_RM64 == 139
OPCODE_SUB_IMM8_RSP == 131
OPCODE_ADD_IMM8_RSP == 131
OPCODE_MOV_IMM64_RAX == 184
OPCODE_CALL_RM64 == 255
OPCODE_RET == 195
OPCODE_PUSH_R12_BYTE == 84
OPCODE_POP_R12_BYTE == 92
OPCODE_PUSH_R14_BYTE == 86
OPCODE_POP_R14_BYTE == 94
OPCODE_POP_RBP == 93
OPCODE_PUSH_R13_BYTE == 85
OPCODE_POP_R13_BYTE == 93
PREFIX_MOVSS == 243
PREFIX_MOVSD == 242
OPCODE_XMM_MOV_XMM_RM == 16
OPCODE_XMM_MOV_RM_XMM == 17
REX_W_PREFIX == 72
REX_R_BIT == 4
REX_B_BIT == 1
REX_WR_PREFIX == BitOr(REX_W_PREFIX, REX_R_BIT)
REX_WB_PREFIX == BitOr(REX_W_PREFIX, REX_B_BIT)
REX_BASE_0x40_BIT == 64
REX_B_PREFIX_32BIT_OP == BitOr(REX_BASE_0x40_BIT, REX_B_BIT)
REX_PUSH_POP_R12_PREFIX == BitOr(REX_BASE_0x40_BIT, REX_B_BIT)
REX_PUSH_POP_R14_PREFIX == BitOr(REX_BASE_0x40_BIT, REX_B_BIT)
REX_PUSH_POP_R13_PREFIX == BitOr(REX_BASE_0x40_BIT, REX_B_BIT)
MODRM_REG_RAX == 0
MODRM_REG_RCX == 1
MODRM_REG_RDX == 2
MODRM_REG_RBX == 3
MODRM_REG_RSP == 4
MODRM_REG_RBP == 5
MODRM_REG_RSI == 6
MODRM_REG_RDI == 7
MODRM_REG_R8_CODE == 0
MODRM_REG_R9_CODE == 1
MODRM_REG_R10_CODE == 2
MODRM_REG_R11_CODE == 3
MODRM_REG_R12_CODE == 4
MODRM_REG_R13_CODE == 5
MODRM_REG_R14_CODE == 6
MODRM_REG_R15_CODE == 7
MODRM_REG_XMM0_CODE == 0
MODRM_REG_XMM7_CODE == 7
MOD_INDIRECT == 0
MOD_DISP8 == 1
MOD_REGISTER == 3
RM_SIB_BYTE_FOLLOWS == 4
SIB_SCALE_1X == 0
SIB_INDEX_NONE == 4
SIB_BASE_R12 == 4
SIB_BASE_R14 == 6
SIB_BYTE_R12_BASE == BitOr(BitOr(Shl(SIB_SCALE_1X, 6), Shl(SIB_INDEX_NONE, 3)), SIB_BASE_R12)
SIB_BYTE_R14_BASE == BitOr(BitOr(Shl(SIB_SCALE_1X, 6), Shl(SIB_INDEX_NONE, 3)), SIB_BASE_R14)
SIB_BYTE_RSP == BitOr(BitOr(Shl(SIB_SCALE_1X, 6), Shl(SIB_INDEX_NONE, 3)), MODRM_REG_RSP)

\* sizeof(FFI_Argument): one pointer (cross.c:77-79)
SizeofFFIArgument == 8

\* (mod << 6) | (reg << 3) | rm, as every ModR/M byte is built
ModRM(mod, reg, rm) == U8(BitOr(BitOr(Shl(mod, 6), Shl(reg, 3)), rm))


(***************************************************************************)
(* FFI_FunctionSignature (cross.c:86-94).  param_types is a sequence of    *)
(* FFI_Type or NullArray; func_ptr is the target's address, eight bytes, least  *)
(* significant first, as memcpy stores it on a little-endian host.          *)
(***************************************************************************)
\* the parameter array as the generators index it: param_types[i], i from 0
ParamAt(sig, i) == sig.param_types[i + 1]

(***************************************************************************)
(* generate_x86_64_sysv_trampoline (cross.c:693-1174).                      *)
(***************************************************************************)
\* endbr64, push rbp, mov rbp,rsp, push r14, mov r14,rdi, push r12, mov r12,rdx
SysvPrologue ==
    << 243, 15, 30, OPCODE_END_BRANCH_64,
       OPCODE_PUSH_RBP,
       REX_W_PREFIX, OPCODE_MOV_RM64_R64, ModRM(MOD_REGISTER, MODRM_REG_RSP, MODRM_REG_RBP),
       REX_PUSH_POP_R14_PREFIX, OPCODE_PUSH_R14_BYTE,
       REX_WB_PREFIX, OPCODE_MOV_RM64_R64, ModRM(MOD_REGISTER, MODRM_REG_RDI, MODRM_REG_R14_CODE),
       REX_PUSH_POP_R12_PREFIX, OPCODE_PUSH_R12_BYTE,
       REX_WB_PREFIX, OPCODE_MOV_RM64_R64, ModRM(MOD_REGISTER, MODRM_REG_RDX, MODRM_REG_R12_CODE) >>

\* one iteration of the first loop over the parameters
SysvSizingStep(param_type, c) ==
    IF IsXmmType(param_type)
    THEN IF c.num_xmm_regs_used < 8
         THEN [c EXCEPT !.num_xmm_regs_used = @ + 1]
         ELSE [c EXCEPT !.num_stack_args = @ + 1]
    ELSE IF IsInt128Type(param_type)
    THEN IF c.num_gp_regs_used <= 4
         THEN [c EXCEPT !.num_gp_regs_used = @ + 2]
         ELSE [c EXCEPT !.num_stack_args = @ + 2]
    ELSE IF c.num_gp_regs_used < 6
         THEN [c EXCEPT !.num_gp_regs_used = @ + 1]
         ELSE [c EXCEPT !.num_stack_args = @ + 1]

RECURSIVE SysvSizingPass(_, _, _, _)
\* the first loop over the parameters, iterations lo .. hi - 1 in order: it
\* reads sig->param_types[i] without testing the pointer
SysvSizingPass(sig, lo, hi, c) ==
    IF lo >= hi \/ c.nullread THEN c
    ELSE IF sig.param_types = NullArray THEN [c EXCEPT !.nullread = TRUE]
    ELSE IF hi = lo + 1 THEN SysvSizingStep(ParamAt(sig, lo), c)
    ELSE LET mid == (lo + hi) \div 2
         IN  SysvSizingPass(sig, mid, hi, SysvSizingPass(sig, lo, mid, c))

\* the counters of the sizing pass, all zero at its start
SizingStart(gp0) ==
    [num_gp_regs_used |-> gp0, num_xmm_regs_used |-> 0, num_stack_args |-> 0,
     nullread |-> FALSE]

RECURSIVE PadTo16(_)
\* while ((x % 16) != 0) x++
PadTo16(x) == IF x % 16 = 0 THEN x ELSE PadTo16(x + 1)

\* a reservation of the bare size of the stack arguments
SysvStackUnpadded(num_stack_args) == num_stack_args * 8

\* final_stack_subtraction
SysvStackSubtraction(num_stack_args) ==
    IF num_stack_args > 0 THEN PadTo16(num_stack_args * 8) ELSE 0

\* sub rsp, imm8: emitted only when the reservation is not zero
SysvSubRsp(final_stack_subtraction) ==
    IF final_stack_subtraction > 0
    THEN << REX_W_PREFIX, OPCODE_SUB_IMM8_RSP, ModRM(MOD_REGISTER, 5, MODRM_REG_RSP),
            U8(final_stack_subtraction) >>
    ELSE << >>

\* mov al, 0
SysvMovAl == << 176, 0 >>

\* gp_arg_regs[] and gp_arg_regs_needs_rex_r[]
SysvGpArgRegs ==
    << MODRM_REG_RDI, MODRM_REG_RSI, MODRM_REG_RDX, MODRM_REG_RCX,
       MODRM_REG_R8_CODE, MODRM_REG_R9_CODE >>
SysvGpArgRegsNeedsRexR == << FALSE, FALSE, FALSE, FALSE, TRUE, TRUE >>

\* mov r10, [r14 + disp8]: args[i].value_ptr
SysvLoadValuePtr(i) ==
    << BitOr(REX_WR_PREFIX, REX_B_BIT), OPCODE_MOV_R64_RM64,
       ModRM(MOD_DISP8, MODRM_REG_R10_CODE, MODRM_REG_R14_CODE),
       U8(i * SizeofFFIArgument) >>

\* movss/movsd xmm<idx>, [r10]
SysvXmmRegLoad(param_type, xmm_reg_idx) ==
    << IF param_type = "FLOAT" THEN PREFIX_MOVSS ELSE PREFIX_MOVSD,
       BitOr(REX_BASE_0x40_BIT, REX_B_BIT), 15, OPCODE_XMM_MOV_XMM_RM,
       U8(BitOr(BitOr(Shl(MOD_INDIRECT, 6), Shl(MODRM_REG_XMM0_CODE + xmm_reg_idx, 3)),
                MODRM_REG_R10_CODE)) >>

\* a 128-bit integer in two adjacent integer registers
SysvInt128RegLoad(gp_reg_idx) ==
    LET dest_reg_low == SysvGpArgRegs[gp_reg_idx + 1]
        dest_reg_high == SysvGpArgRegs[gp_reg_idx + 2]
        rex_prefix_low ==
            IF SysvGpArgRegsNeedsRexR[gp_reg_idx + 1]
            THEN BitOr(BitOr(REX_W_PREFIX, REX_B_BIT), REX_R_BIT)
            ELSE BitOr(REX_W_PREFIX, REX_B_BIT)
        rex_prefix_high ==
            IF SysvGpArgRegsNeedsRexR[gp_reg_idx + 2]
            THEN BitOr(BitOr(REX_W_PREFIX, REX_B_BIT), REX_R_BIT)
            ELSE BitOr(REX_W_PREFIX, REX_B_BIT)
    IN  << rex_prefix_low, OPCODE_MOV_R64_RM64,
           ModRM(MOD_INDIRECT, dest_reg_low, MODRM_REG_R10_CODE),
           rex_prefix_high, OPCODE_MOV_R64_RM64,
           ModRM(MOD_DISP8, dest_reg_high, MODRM_REG_R10_CODE), 8 >>

\* the switch on param_type of the register path; << >> is "default: return 0"
SysvGprRegLoad(param_type, rex, modrm) ==
    CASE param_type \in {"BOOL", "CHAR", "UCHAR"} ->
            << BitOr(rex, REX_W_PREFIX), 15, 182, modrm >>
      [] param_type = "SCHAR" ->
            << BitOr(rex, REX_W_PREFIX), 15, 190, modrm >>
      [] param_type \in {"SHORT", "SSHORT"} ->
            << 102, BitOr(rex, REX_W_PREFIX), 15, 191, modrm >>
      [] param_type = "USHORT" ->
            << 102, BitOr(rex, REX_W_PREFIX), 15, 183, modrm >>
      [] param_type \in {"INT", "SINT", "WCHAR"} ->
            << BitOr(rex, REX_W_PREFIX), 99, modrm >>
      [] param_type = "UINT" ->
            << rex, OPCODE_MOV_R64_RM64, modrm >>
      [] param_type \in {"LONG", "ULONG", "LLONG", "ULLONG", "POINTER", "SIZE_T",
                         "SLONG", "SLLONG"} ->
            << BitOr(rex, REX_W_PREFIX), OPCODE_MOV_R64_RM64, modrm >>
      [] OTHER -> << >>

\* the integer-register path for one scalar
SysvGprReg(param_type, gp_reg_idx) ==
    LET dest_reg_code == SysvGpArgRegs[gp_reg_idx + 1]
        modrm == ModRM(MOD_INDIRECT, dest_reg_code, MODRM_REG_R10_CODE)
        rex0 == BitOr(REX_BASE_0x40_BIT, REX_B_BIT)
        final_rex_prefix ==
            IF SysvGpArgRegsNeedsRexR[gp_reg_idx + 1] THEN BitOr(rex0, REX_R_BIT) ELSE rex0
    IN  SysvGprRegLoad(param_type, final_rex_prefix, modrm)

\* a 128-bit integer to two stack slots, through r11 and r13
SysvInt128Spill(stack_arg_current_idx) ==
    << BitOr(REX_WR_PREFIX, REX_B_BIT), OPCODE_MOV_R64_RM64,
       ModRM(MOD_INDIRECT, MODRM_REG_R11_CODE, MODRM_REG_R10_CODE),
       BitOr(BitOr(REX_PUSH_POP_R13_PREFIX, REX_W_PREFIX), REX_R_BIT), OPCODE_MOV_R64_RM64,
       ModRM(MOD_DISP8, MODRM_REG_R13_CODE, MODRM_REG_R10_CODE), 8,
       BitOr(REX_W_PREFIX, REX_R_BIT), OPCODE_MOV_RM64_R64,
       ModRM(MOD_DISP8, MODRM_REG_R11_CODE, RM_SIB_BYTE_FOLLOWS), SIB_BYTE_RSP,
       U8(stack_arg_current_idx * 8),
       BitOr(REX_W_PREFIX, REX_R_BIT), OPCODE_MOV_RM64_R64,
       ModRM(MOD_DISP8, MODRM_REG_R13_CODE, RM_SIB_BYTE_FOLLOWS), SIB_BYTE_RSP,
       U8((stack_arg_current_idx + 1) * 8) >>

\* a float or double to one stack slot, through the register coded 7 with REX.R
SysvXmmSpill(param_type, stack_arg_current_idx) ==
    LET xmm_prefix == IF param_type = "FLOAT" THEN PREFIX_MOVSS ELSE PREFIX_MOVSD IN
    << xmm_prefix, BitOr(BitOr(REX_BASE_0x40_BIT, REX_R_BIT), REX_B_BIT), 15,
       OPCODE_XMM_MOV_XMM_RM, ModRM(MOD_INDIRECT, MODRM_REG_XMM7_CODE, MODRM_REG_R10_CODE),
       xmm_prefix, BitOr(REX_BASE_0x40_BIT, REX_R_BIT), 15, OPCODE_XMM_MOV_RM_XMM,
       ModRM(MOD_DISP8, MODRM_REG_XMM7_CODE, RM_SIB_BYTE_FOLLOWS), SIB_BYTE_RSP,
       U8(stack_arg_current_idx * 8) >>

\* the switch on param_type of the spill path; << >> is "default: return 0"
SysvGprSpillLoad(param_type, rex, modrm) ==
    CASE param_type \in {"BOOL", "CHAR", "UCHAR"} ->
            << BitOr(rex, REX_W_PREFIX), 15, 182, modrm >>
      [] param_type = "SCHAR" ->
            << BitOr(rex, REX_W_PREFIX), 15, 190, modrm >>
      [] param_type \in {"SHORT", "SSHORT"} ->
            << 102, BitOr(rex, REX_W_PREFIX), 15, 191, modrm >>
      [] param_type = "USHORT" ->
            << 102, BitOr(rex, REX_W_PREFIX), 15, 183, modrm >>
      [] param_type \in {"INT", "SINT", "WCHAR"} ->
            << BitOr(rex, REX_W_PREFIX), 99, modrm >>
      [] param_type = "UINT" ->
            << rex, OPCODE_MOV_R64_RM64, modrm >>
      [] param_type \in {"LONG", "ULONG", "LLONG", "ULLONG", "POINTER", "SIZE_T",
                         "SLONG", "SLLONG"} ->
            << BitOr(rex, REX_W_PREFIX), OPCODE_MOV_R64_RM64, modrm >>
      [] OTHER -> << >>

\* mov [rsp + offset], r11: no displacement byte when the offset is 0
X64StoreR11ToStack(stack_offset_from_rsp_base) ==
    << BitOr(REX_W_PREFIX, REX_R_BIT), OPCODE_MOV_RM64_R64,
       ModRM(IF stack_offset_from_rsp_base = 0 THEN MOD_INDIRECT ELSE MOD_DISP8,
             MODRM_REG_R11_CODE, RM_SIB_BYTE_FOLLOWS),
       SIB_BYTE_RSP >>
    \o (IF stack_offset_from_rsp_base # 0 THEN << U8(stack_offset_from_rsp_base) >> ELSE << >>)

\* an integer scalar to one stack slot, through r11
SysvGprSpill(param_type, stack_arg_current_idx) ==
    LET load == SysvGprSpillLoad(param_type,
                    BitOr(BitOr(REX_BASE_0x40_BIT, REX_B_BIT), REX_R_BIT),
                    ModRM(MOD_INDIRECT, MODRM_REG_R11_CODE, MODRM_REG_R10_CODE))
    IN  IF load = << >> THEN << >>
        ELSE load \o X64StoreR11ToStack(stack_arg_current_idx * 8)

\* the state of the marshalling loop: the bytes written so far, the three
\* counters, and whether a "return 0" was taken
MarshalStart(code, gp0) ==
    [code |-> code, gp_reg_idx |-> gp0, xmm_reg_idx |-> 0, stack_arg_current_idx |-> 0,
     failed |-> FALSE]

\* one iteration of the marshalling loop
SysvMarshalParam(param_type, i, m) ==
    LET ptr == m.code \o SysvLoadValuePtr(i) IN
    IF IsXmmType(param_type)
    THEN IF m.xmm_reg_idx < 8
         THEN [m EXCEPT !.code = ptr \o SysvXmmRegLoad(param_type, m.xmm_reg_idx),
                        !.xmm_reg_idx = @ + 1]
         ELSE [m EXCEPT !.code = ptr \o SysvXmmSpill(param_type, m.stack_arg_current_idx),
                        !.stack_arg_current_idx = @ + 1]
    ELSE IF IsInt128Type(param_type)
    THEN IF m.gp_reg_idx <= 4
         THEN [m EXCEPT !.code = ptr \o SysvInt128RegLoad(m.gp_reg_idx),
                        !.gp_reg_idx = @ + 2]
         ELSE [m EXCEPT !.code = ptr \o SysvInt128Spill(m.stack_arg_current_idx),
                        !.stack_arg_current_idx = @ + 2]
    ELSE IF m.gp_reg_idx < 6
         THEN LET load == SysvGprReg(param_type, m.gp_reg_idx) IN
              IF load = << >> THEN [m EXCEPT !.code = ptr, !.failed = TRUE]
              ELSE [m EXCEPT !.code = ptr \o load, !.gp_reg_idx = @ + 1]
         ELSE LET spill == SysvGprSpill(param_type, m.stack_arg_current_idx) IN
              IF spill = << >> THEN [m EXCEPT !.code = ptr, !.failed = TRUE]
              ELSE [m EXCEPT !.code = ptr \o spill, !.stack_arg_current_idx = @ + 1]

RECURSIVE SysvMarshalLoop(_, _, _, _)
\* for (i = 0; i < num_params; ++i), iterations lo .. hi - 1 in order, left
\* at the first "return 0"
SysvMarshalLoop(sig, lo, hi, m) ==
    IF lo >= hi \/ m.failed THEN m
    ELSE IF hi = lo + 1 THEN SysvMarshalParam(ParamAt(sig, lo), lo, m)
    ELSE LET mid == (lo + hi) \div 2
         IN  SysvMarshalLoop(sig, mid, hi, SysvMarshalLoop(sig, lo, mid, m))

\* the marshalling pass, guarded by num_params > 0 && param_types != NULL
SysvMarshal(sig, code) ==
    IF sig.num_params > 0 /\ sig.param_types # NullArray
    THEN SysvMarshalLoop(sig, 0, sig.num_params, MarshalStart(code, 0))
    ELSE MarshalStart(code, 0)

\* movabs rax, func_ptr ; call rax
X64CallTarget(sig) ==
    << REX_W_PREFIX, OPCODE_MOV_IMM64_RAX >> \o sig.func_ptr
    \o << OPCODE_CALL_RM64, ModRM(MOD_REGISTER, 2, MODRM_REG_RAX) >>

\* the switch on return_type; nothing is emitted for void
SysvReturnStore(return_type) ==
    LET modrm == ModRM(MOD_INDIRECT, MODRM_REG_RAX, RM_SIB_BYTE_FOLLOWS) IN
    CASE return_type = "VOID" -> << >>
      [] return_type \in {"BOOL", "CHAR", "UCHAR", "SCHAR"} ->
            << REX_B_PREFIX_32BIT_OP, 136, modrm, SIB_BYTE_R12_BASE >>
      [] return_type \in {"SHORT", "USHORT", "SSHORT"} ->
            << 102, REX_B_PREFIX_32BIT_OP, 137, modrm, SIB_BYTE_R12_BASE >>
      [] return_type \in {"INT", "UINT", "SINT", "WCHAR"} ->
            << REX_B_PREFIX_32BIT_OP, OPCODE_MOV_RM64_R64, modrm, SIB_BYTE_R12_BASE >>
      [] return_type \in {"LONG", "ULONG", "LLONG", "ULLONG", "POINTER", "SIZE_T",
                          "SLONG", "SLLONG"} ->
            << REX_WB_PREFIX, OPCODE_MOV_RM64_R64, modrm, SIB_BYTE_R12_BASE >>
      [] return_type = "FLOAT" ->
            << PREFIX_MOVSS, BitOr(REX_BASE_0x40_BIT, REX_B_BIT), 15, OPCODE_XMM_MOV_RM_XMM,
               ModRM(MOD_INDIRECT, MODRM_REG_XMM0_CODE, RM_SIB_BYTE_FOLLOWS),
               SIB_BYTE_R12_BASE >>
      [] return_type = "DOUBLE" ->
            << PREFIX_MOVSD, BitOr(REX_BASE_0x40_BIT, REX_B_BIT), 15, OPCODE_XMM_MOV_RM_XMM,
               ModRM(MOD_INDIRECT, MODRM_REG_XMM0_CODE, RM_SIB_BYTE_FOLLOWS),
               SIB_BYTE_R12_BASE >>
      [] return_type \in {"INT128", "UINT128"} ->
            << REX_WB_PREFIX, OPCODE_MOV_RM64_R64, modrm, SIB_BYTE_R12_BASE,
               REX_WB_PREFIX, OPCODE_MOV_RM64_R64,
               ModRM(MOD_DISP8, MODRM_REG_RDX, RM_SIB_BYTE_FOLLOWS), SIB_BYTE_R12_BASE, 8 >>
      [] OTHER -> Unsupported

\* add rsp, imm8 (when space was reserved), pop r12, pop r14, pop rbp, ret
SysvEpilogue(final_stack_subtraction) ==
    (IF final_stack_subtraction > 0
     THEN << REX_W_PREFIX, OPCODE_ADD_IMM8_RSP, ModRM(MOD_REGISTER, 0, MODRM_REG_RSP),
             U8(final_stack_subtraction) >>
     ELSE << >>)
    \o << REX_PUSH_POP_R12_PREFIX, OPCODE_POP_R12_BYTE,
          REX_PUSH_POP_R14_PREFIX, OPCODE_POP_R14_BYTE,
          OPCODE_POP_RBP, OPCODE_RET >>

\* What a generator leaves behind: ret is the size_t it returns, code the
\* bytes it has stored in the buffer by then, nullread whether it read
\* through a NULL param_types.
GenResult(ret, code, nullread) == [ret |-> ret, code |-> code, nullread |-> nullread]

\* "return (size_t)(current_code_ptr - code_buffer)"
Generated(code) == GenResult(Len(code), code, FALSE)

\* a generator that emits its epilogue before the return store
EpilogueBeforeStore(called, store, epilogue) ==
    IF store = Unsupported THEN GenResult(0, called, FALSE)
    ELSE Generated(called \o epilogue \o store)

\* the return store, which may be "default: return 0", then the epilogue
AfterCall(called, store, epilogue) ==
    IF store = Unsupported THEN GenResult(0, called, FALSE)
    ELSE Generated(called \o store \o epilogue)

\* what follows the marshalling loop, unless that loop returned 0
AfterMarshal(m, call, store, epilogue) ==
    IF m.failed THEN GenResult(0, m.code, FALSE)
    ELSE AfterCall(m.code \o call, store, epilogue)

\* the generator after its sizing pass has counted c
SysvEmit(sig, c) ==
    IF c.nullread THEN GenResult(0, SysvPrologue, TRUE)
    ELSE AfterMarshal(SysvMarshal(sig, SysvPrologue
                                       \o SysvSubRsp(SysvStackSubtraction(c.num_stack_args))
                                       \o SysvMovAl),
                      X64CallTarget(sig),
                      SysvReturnStore(sig.return_type),
                      SysvEpilogue(SysvStackSubtraction(c.num_stack_args)))

\* the whole generator
generate_x86_64_sysv_trampoline(sig) ==
    SysvEmit(sig, SysvSizingPass(sig, 0, sig.num_params, SizingStart(0)))

(***************************************************************************)
(* generate_x86_64_win64_trampoline (cross.c:1182-1670).                    *)
(***************************************************************************)
\* push rbp, mov rbp,rsp, push r13, mov r13,rcx, push r14, mov r14,r8
Win64Prologue ==
    << OPCODE_PUSH_RBP,
       REX_W_PREFIX, OPCODE_MOV_RM64_R64, ModRM(MOD_REGISTER, MODRM_REG_RSP, MODRM_REG_RBP),
       REX_PUSH_POP_R13_PREFIX, OPCODE_PUSH_R13_BYTE,
       REX_WB_PREFIX, OPCODE_MOV_RM64_R64, ModRM(MOD_REGISTER, MODRM_REG_RCX, MODRM_REG_R13_CODE),
       REX_PUSH_POP_R14_PREFIX, OPCODE_PUSH_R14_BYTE,
       BitOr(REX_WR_PREFIX, REX_B_BIT), OPCODE_MOV_RM64_R64,
       ModRM(MOD_REGISTER, MODRM_REG_R8_CODE, MODRM_REG_R14_CODE) >>

\* return_struct_by_pointer
Win64ReturnStructByPointer(sig) == IsInt128Type(sig.return_type)

\* one iteration of the first loop over the parameters
Win64SizingStep(param_type, c) ==
    IF IsXmmType(param_type)
    THEN IF c.num_xmm_regs_used < 4
         THEN [c EXCEPT !.num_xmm_regs_used = @ + 1]
         ELSE [c EXCEPT !.num_stack_args = @ + 1]
    ELSE IF IsInt128Type(param_type)
    THEN IF c.num_gp_regs_used <= 2
         THEN [c EXCEPT !.num_gp_regs_used = @ + 2]
         ELSE [c EXCEPT !.num_stack_args = @ + 2]
    ELSE IF c.num_gp_regs_used < 4
         THEN [c EXCEPT !.num_gp_regs_used = @ + 1]
         ELSE [c EXCEPT !.num_stack_args = @ + 1]

RECURSIVE Win64SizingPass(_, _, _, _)
\* the first loop over the parameters, iterations lo .. hi - 1 in order: it
\* reads sig->param_types[i] without testing the pointer
Win64SizingPass(sig, lo, hi, c) ==
    IF lo >= hi \/ c.nullread THEN c
    ELSE IF sig.param_types = NullArray THEN [c EXCEPT !.nullread = TRUE]
    ELSE IF hi = lo + 1 THEN Win64SizingStep(ParamAt(sig, lo), c)
    ELSE LET mid == (lo + hi) \div 2
         IN  Win64SizingPass(sig, mid, hi, Win64SizingPass(sig, lo, mid, c))

\* total_stack_alloc: 32 bytes of shadow space, the spilled slots, and 8 more
\* when that leaves rsp misaligned
Win64StackAlloc(num_stack_args) ==
    LET total_stack_alloc == 32 + num_stack_args * 8 IN
    IF (8 + total_stack_alloc) % 16 # 0 THEN total_stack_alloc + 8 ELSE total_stack_alloc

\* sub rsp, imm8
Win64SubRsp(total_stack_alloc) ==
    IF total_stack_alloc > 0
    THEN << REX_W_PREFIX, OPCODE_SUB_IMM8_RSP, ModRM(MOD_REGISTER, 5, MODRM_REG_RSP),
            U8(total_stack_alloc) >>
    ELSE << >>

\* gp_arg_regs[] and gp_arg_regs_needs_rex_r[]
Win64GpArgRegs ==
    << MODRM_REG_RCX, MODRM_REG_RDX, MODRM_REG_R8_CODE, MODRM_REG_R9_CODE >>
Win64GpArgRegsNeedsRexR == << FALSE, FALSE, TRUE, TRUE >>

\* the three bytes written for "mov %r14, %rcx"
Win64MovReturnBufferToRcx ==
    << REX_WB_PREFIX, OPCODE_MOV_RM64_R64,
       ModRM(MOD_REGISTER, MODRM_REG_R14_CODE, MODRM_REG_RCX) >>

\* mov r10, [r13 + disp8]: args[i].value_ptr
Win64LoadValuePtr(i) ==
    << BitOr(REX_WR_PREFIX, REX_B_BIT), OPCODE_MOV_R64_RM64,
       ModRM(MOD_DISP8, MODRM_REG_R10_CODE, MODRM_REG_R13_CODE),
       U8(i * SizeofFFIArgument) >>

\* movss/movsd xmm<idx>, [r10]
Win64XmmRegLoad(param_type, xmm_reg_idx) ==
    << IF param_type = "FLOAT" THEN PREFIX_MOVSS ELSE PREFIX_MOVSD,
       IF xmm_reg_idx >= 4
       THEN BitOr(BitOr(REX_BASE_0x40_BIT, REX_B_BIT), REX_R_BIT)
       ELSE BitOr(REX_BASE_0x40_BIT, REX_B_BIT),
       15, OPCODE_XMM_MOV_XMM_RM,
       U8(BitOr(BitOr(Shl(MOD_INDIRECT, 6), Shl(MODRM_REG_XMM0_CODE + xmm_reg_idx, 3)),
                MODRM_REG_R10_CODE)) >>

\* a 128-bit integer in two adjacent integer registers
Win64Int128RegLoad(gp_reg_idx) ==
    LET dest_reg_low == Win64GpArgRegs[gp_reg_idx + 1]
        dest_reg_high == Win64GpArgRegs[gp_reg_idx + 2]
        rex_prefix_low ==
            IF Win64GpArgRegsNeedsRexR[gp_reg_idx + 1]
            THEN BitOr(BitOr(REX_W_PREFIX, REX_B_BIT), REX_R_BIT)
            ELSE BitOr(REX_W_PREFIX, REX_B_BIT)
        rex_prefix_high ==
            IF Win64GpArgRegsNeedsRexR[gp_reg_idx + 2]
            THEN BitOr(BitOr(REX_W_PREFIX, REX_B_BIT), REX_R_BIT)
            ELSE BitOr(REX_W_PREFIX, REX_B_BIT)
    IN  << rex_prefix_low, OPCODE_MOV_R64_RM64,
           ModRM(MOD_INDIRECT, dest_reg_low, MODRM_REG_R10_CODE),
           rex_prefix_high, OPCODE_MOV_R64_RM64,
           ModRM(MOD_DISP8, dest_reg_high, MODRM_REG_R10_CODE), 8 >>

\* the switch on param_type of the register path; << >> is "default: return 0"
Win64GprRegLoad(param_type, rex, modrm) ==
    CASE param_type \in {"BOOL", "CHAR", "UCHAR"} ->
            << BitOr(rex, REX_W_PREFIX), 15, 182, modrm >>
      [] param_type = "SCHAR" ->
            << BitOr(rex, REX_W_PREFIX), 15, 190, modrm >>
      [] param_type \in {"SHORT", "SSHORT"} ->
            << 102, BitOr(rex, REX_W_PREFIX), 15, 191, modrm >>
      [] param_type = "USHORT" ->
            << 102, BitOr(rex, REX_W_PREFIX), 15, 183, modrm >>
      [] param_type \in {"INT", "SINT", "WCHAR"} ->
            << 102, BitOr(rex, REX_W_PREFIX), 15, 183, modrm >>
      [] param_type = "UINT" ->
            << rex, OPCODE_MOV_R64_RM64, modrm >>
      [] param_type \in {"LONG", "SLONG"} ->
            << BitOr(rex, REX_W_PREFIX), 99, modrm >>
      [] param_type = "ULONG" ->
            << BitOr(rex, REX_W_PREFIX), OPCODE_MOV_R64_RM64, modrm >>
      [] param_type \in {"LLONG", "ULLONG", "POINTER", "SIZE_T", "SLLONG"} ->
            << BitOr(rex, REX_W_PREFIX), OPCODE_MOV_R64_RM64, modrm >>
      [] OTHER -> << >>

\* the integer-register path for one scalar
Win64GprReg(param_type, gp_reg_idx) ==
    LET dest_reg_code == Win64GpArgRegs[gp_reg_idx + 1]
        modrm == ModRM(MOD_INDIRECT, dest_reg_code, MODRM_REG_R10_CODE)
        rex0 == BitOr(REX_BASE_0x40_BIT, REX_B_BIT)
        final_rex_prefix ==
            IF Win64GpArgRegsNeedsRexR[gp_reg_idx + 1] THEN BitOr(rex0, REX_R_BIT) ELSE rex0
    IN  Win64GprRegLoad(param_type, final_rex_prefix, modrm)

\* a 128-bit integer to two stack slots, through r11 and r12
Win64Int128Spill(stack_offset_from_rsp_base) ==
    << BitOr(REX_WR_PREFIX, REX_B_BIT), OPCODE_MOV_R64_RM64,
       ModRM(MOD_INDIRECT, MODRM_REG_R11_CODE, MODRM_REG_R10_CODE),
       BitOr(BitOr(REX_PUSH_POP_R12_PREFIX, REX_W_PREFIX), REX_R_BIT), OPCODE_MOV_R64_RM64,
       ModRM(MOD_DISP8, MODRM_REG_R12_CODE, MODRM_REG_R10_CODE), 8,
       BitOr(REX_W_PREFIX, REX_R_BIT), OPCODE_MOV_RM64_R64,
       ModRM(MOD_DISP8, MODRM_REG_R11_CODE, RM_SIB_BYTE_FOLLOWS), SIB_BYTE_RSP,
       U8(stack_offset_from_rsp_base),
       BitOr(REX_W_PREFIX, REX_R_BIT), OPCODE_MOV_RM64_R64,
       ModRM(MOD_DISP8, MODRM_REG_R12_CODE, RM_SIB_BYTE_FOLLOWS), SIB_BYTE_RSP,
       U8(stack_offset_from_rsp_base + 8) >>

\* a float or double to one stack slot, through the register coded 7 with REX.R
Win64XmmSpill(param_type, stack_offset_from_rsp_base) ==
    LET xmm_prefix == IF param_type = "FLOAT" THEN PREFIX_MOVSS ELSE PREFIX_MOVSD IN
    << xmm_prefix, BitOr(BitOr(REX_BASE_0x40_BIT, REX_R_BIT), REX_B_BIT), 15,
       OPCODE_XMM_MOV_XMM_RM, ModRM(MOD_INDIRECT, MODRM_REG_XMM7_CODE, MODRM_REG_R10_CODE),
       xmm_prefix, BitOr(REX_BASE_0x40_BIT, REX_R_BIT), 15, OPCODE_XMM_MOV_RM_XMM,
       ModRM(MOD_DISP8, MODRM_REG_XMM7_CODE, RM_SIB_BYTE_FOLLOWS), SIB_BYTE_RSP,
       U8(stack_offset_from_rsp_base) >>

\* the switch on param_type of the spill path; << >> is "default: return 0".
\* For ULONG the prefix is load_rex_prefix & ~REX_W_PREFIX.
Win64GprSpillLoad(param_type, rex, modrm) ==
    CASE param_type \in {"BOOL", "CHAR", "UCHAR"} ->
            << BitOr(rex, REX_W_PREFIX), 15, 182, modrm >>
      [] param_type = "SCHAR" ->
            << BitOr(rex, REX_W_PREFIX), 15, 190, modrm >>
      [] param_type \in {"SHORT", "SSHORT"} ->
            << 102, BitOr(rex, REX_W_PREFIX), 15, 191, modrm >>
      [] param_type = "USHORT" ->
            << 102, BitOr(rex, REX_W_PREFIX), 15, 183, modrm >>
      [] param_type \in {"INT", "SINT", "LONG", "SLONG"} ->
            << BitOr(rex, REX_W_PREFIX), 99, modrm >>
      [] param_type = "ULONG" ->
            << BitAndNot(BitOr(rex, REX_W_PREFIX), REX_W_PREFIX), OPCODE_MOV_R64_RM64, modrm >>
      [] param_type = "WCHAR" ->
            << 102, BitOr(rex, REX_W_PREFIX), 15, 183, modrm >>
      [] param_type \in {"LLONG", "ULLONG", "POINTER", "SIZE_T", "SLLONG"} ->
            << BitOr(rex, REX_W_PREFIX), OPCODE_MOV_R64_RM64, modrm >>
      [] OTHER -> << >>

\* an integer scalar to one stack slot, through r11
Win64GprSpill(param_type, stack_offset_from_rsp_base) ==
    LET load == Win64GprSpillLoad(param_type,
                    BitOr(BitOr(REX_BASE_0x40_BIT, REX_B_BIT), REX_R_BIT),
                    ModRM(MOD_INDIRECT, MODRM_REG_R11_CODE, MODRM_REG_R10_CODE))
    IN  IF load = << >> THEN << >>
        ELSE load \o X64StoreR11ToStack(stack_offset_from_rsp_base)

\* one iteration of the marshalling loop; num_gp_regs_used is the count the
\* sizing pass ended with, which the 128-bit test reads
Win64MarshalParam(param_type, i, m, num_gp_regs_used) ==
    LET ptr == m.code \o Win64LoadValuePtr(i)
        stack_offset_from_rsp_base == 32 + m.stack_arg_current_idx * 8
    IN
    IF IsXmmType(param_type)
    THEN IF m.xmm_reg_idx < 4
         THEN [m EXCEPT !.code = ptr \o Win64XmmRegLoad(param_type, m.xmm_reg_idx),
                        !.xmm_reg_idx = @ + 1]
         ELSE [m EXCEPT !.code = ptr \o Win64XmmSpill(param_type, stack_offset_from_rsp_base),
                        !.stack_arg_current_idx = @ + 1]
    ELSE IF IsInt128Type(param_type)
    THEN IF num_gp_regs_used <= 2
         THEN [m EXCEPT !.code = ptr \o Win64Int128RegLoad(m.gp_reg_idx),
                        !.gp_reg_idx = @ + 2]
         ELSE [m EXCEPT !.code = ptr \o Win64Int128Spill(stack_offset_from_rsp_base),
                        !.stack_arg_current_idx = @ + 2]
    ELSE IF m.gp_reg_idx < 4
         THEN LET load == Win64GprReg(param_type, m.gp_reg_idx) IN
              IF load = << >> THEN [m EXCEPT !.code = ptr, !.failed = TRUE]
              ELSE [m EXCEPT !.code = ptr \o load, !.gp_reg_idx = @ + 1]
         ELSE LET spill == Win64GprSpill(param_type, stack_offset_from_rsp_base) IN
              IF spill = << >> THEN [m EXCEPT !.code = ptr, !.failed = TRUE]
              ELSE [m EXCEPT !.code = ptr \o spill, !.stack_arg_current_idx = @ + 1]

RECURSIVE Win64MarshalLoop(_, _, _, _, _)
\* for (i = 0; i < num_params; ++i), iterations lo .. hi - 1 in order, left
\* at the first "return 0"
Win64MarshalLoop(sig, lo, hi, m, num_gp_regs_used) ==
    IF lo >= hi \/ m.failed THEN m
    ELSE IF hi = lo + 1 THEN Win64MarshalParam(ParamAt(sig, lo), lo, m, num_gp_regs_used)
    ELSE LET mid == (lo + hi) \div 2
         IN  Win64MarshalLoop(sig, mid, hi,
                              Win64MarshalLoop(sig, lo, mid, m, num_gp_regs_used),
                              num_gp_regs_used)

\* the marshalling pass: the return-buffer move, then the guarded loop
Win64Marshal(sig, code, num_gp_regs_used) ==
    LET by_ptr == Win64ReturnStructByPointer(sig)
        start == MarshalStart(code \o (IF by_ptr THEN Win64MovReturnBufferToRcx ELSE << >>),
                              IF by_ptr THEN 1 ELSE 0)
    IN  IF sig.num_params > 0 /\ sig.param_types # NullArray
        THEN Win64MarshalLoop(sig, 0, sig.num_params, start, num_gp_regs_used)
        ELSE start

\* the switch on return_type, entered unless return_struct_by_pointer
Win64ReturnStore(return_type) ==
    LET modrm == ModRM(MOD_INDIRECT, MODRM_REG_RAX, RM_SIB_BYTE_FOLLOWS) IN
    CASE return_type = "VOID" -> << >>
      [] return_type \in {"INT128", "UINT128"} -> << >>
      [] return_type \in {"BOOL", "CHAR", "UCHAR", "SCHAR"} ->
            << REX_B_PREFIX_32BIT_OP, 136, modrm, SIB_BYTE_R14_BASE >>
      [] return_type \in {"SHORT", "USHORT", "SSHORT", "WCHAR"} ->
            << 102, REX_B_PREFIX_32BIT_OP, 137, modrm, SIB_BYTE_R14_BASE >>
      [] return_type \in {"INT", "UINT", "SINT", "LONG", "ULONG", "SLONG"} ->
            << REX_B_PREFIX_32BIT_OP, OPCODE_MOV_RM64_R64, modrm, SIB_BYTE_R14_BASE >>
      [] return_type \in {"LLONG", "ULLONG", "POINTER", "SIZE_T", "SLLONG"} ->
            << REX_WB_PREFIX, OPCODE_MOV_RM64_R64, modrm, SIB_BYTE_R14_BASE >>
      [] return_type = "FLOAT" ->
            << PREFIX_MOVSS, BitOr(REX_BASE_0x40_BIT, REX_B_BIT), 15, OPCODE_XMM_MOV_RM_XMM,
               ModRM(MOD_INDIRECT, MODRM_REG_XMM0_CODE, RM_SIB_BYTE_FOLLOWS),
               SIB_BYTE_R14_BASE >>
      [] return_type = "DOUBLE" ->
            << PREFIX_MOVSD, BitOr(REX_BASE_0x40_BIT, REX_B_BIT), 15, OPCODE_XMM_MOV_RM_XMM,
               ModRM(MOD_INDIRECT, MODRM_REG_XMM0_CODE, RM_SIB_BYTE_FOLLOWS),
               SIB_BYTE_R14_BASE >>
      [] OTHER -> Unsupported

\* add rsp, imm8, pop r14, pop r13, pop rbp, ret
Win64Epilogue(total_stack_alloc) ==
    (IF total_stack_alloc > 0
     THEN << REX_W_PREFIX, OPCODE_ADD_IMM8_RSP, ModRM(MOD_REGISTER, 0, MODRM_REG_RSP),
             U8(total_stack_alloc) >>
     ELSE << >>)
    \o << REX_PUSH_POP_R14_PREFIX, OPCODE_POP_R14_BYTE,
          REX_PUSH_POP_R13_PREFIX, OPCODE_POP_R13_BYTE,
          OPCODE_POP_RBP, OPCODE_RET >>

\* the generator after its sizing pass has counted c
Win64Emit(sig, c) ==
    IF c.nullread THEN GenResult(0, Win64Prologue, TRUE)
    ELSE AfterMarshal(Win64Marshal(sig, Win64Prologue
                                        \o Win64SubRsp(Win64StackAlloc(c.num_stack_args)),
                                   c.num_gp_regs_used),
                      X64CallTarget(sig),
                      Win64ReturnStore(sig.return_type),
                      Win64Epilogue(Win64StackAlloc(c.num_stack_args)))

\* the whole generator
generate_x86_64_win64_trampoline(sig) ==
    Win64Emit(sig, Win64SizingPass(sig, 0, sig.num_params,
                       SizingStart(IF Win64ReturnStructByPointer(sig) THEN 1 ELSE 0)))

(***************************************************************************)
(* The x86-64 instruction format, for the instructions the two generators   *)
(* above can put in a buffer (cross.c:693-1670).  Decoding follows the      *)
(* processor's rules, not the generator's comments: REX.W overrides the     *)
(* 0x66 prefix, an 8-bit displacement or immediate is sign-extended, and    *)
(* REX.R / REX.B extend the ModR/M register and base fields.                *)
(***************************************************************************)
\* the byte at offset pos of the buffer, -1 past its end
X86Byte(code, pos) == IF pos >= 0 /\ pos < Len(code) THEN code[pos + 1] ELSE -1

\* an 8-bit field read as a signed number
SignExtend8(b) == IF b >= 128 THEN b - 256 ELSE b

RECURSIVE LegacyPrefixes(_, _, _)
\* the 0x66, 0xF2 and 0xF3 prefixes before the REX byte
LegacyPrefixes(code, pos, acc) ==
    LET b == X86Byte(code, pos) IN
    IF b = 102 THEN LegacyPrefixes(code, pos + 1, [acc EXCEPT !.n = @ + 1, !.opsize = TRUE])
    ELSE IF b \in {PREFIX_MOVSD, PREFIX_MOVSS}
    THEN LegacyPrefixes(code, pos + 1, [acc EXCEPT !.n = @ + 1, !.rep = b])
    ELSE acc

\* the fields of the ModR/M byte b, of the SIB byte sib that follows it when
\* hasSib, and of the displacement byte d after them
ModRMFields(rex, b, hasSib, sib, d) ==
    [ok |-> /\ b >= 0
            /\ hasSib => sib >= 0 /\ ((sib \div 8) % 8) + 8 * ((rex \div 2) % 2) = SIB_INDEX_NONE
            /\ b \div 64 # 2
            /\ b \div 64 = MOD_INDIRECT => (IF hasSib THEN sib % 8 ELSE b % 8) # 5
            /\ b \div 64 = MOD_DISP8 => d >= 0,
     mod |-> b \div 64,
     reg |-> ((b \div 8) % 8) + 8 * ((rex \div 4) % 2),
     rm |-> (IF hasSib THEN sib % 8 ELSE b % 8) + 8 * (rex % 2),
     disp |-> IF b \div 64 = MOD_DISP8 THEN SignExtend8(d) ELSE 0,
     len |-> 1 + (IF hasSib THEN 1 ELSE 0) + (IF b \div 64 = MOD_DISP8 THEN 1 ELSE 0)]

\* whether a SIB byte follows the ModR/M byte b
HasSib(b) == b \div 64 # MOD_REGISTER /\ b % 8 = RM_SIB_BYTE_FOLLOWS

\* the ModR/M byte at pos, with its SIB byte and displacement
DecodeModRM(code, pos, rex) ==
    ModRMFields(rex, X86Byte(code, pos), HasSib(X86Byte(code, pos)),
                X86Byte(code, pos + 1),
                X86Byte(code, pos + 1 + (IF HasSib(X86Byte(code, pos)) THEN 1 ELSE 0)))

\* one decoded instruction
Insn(op, size, m, imm, len) ==
    [op |-> op, size |-> size, mod |-> m.mod, reg |-> m.reg, rm |-> m.rm, disp |-> m.disp,
     imm |-> imm, len |-> len]

\* the operand fields of an instruction without a ModR/M byte
NoModRM(reg) == [ok |-> TRUE, mod |-> MOD_REGISTER, reg |-> reg, rm |-> reg, disp |-> 0, len |-> 0]

\* bytes that do not decode to an instruction of the generators' repertoire
Undefined == Insn("undefined", 0, NoModRM(0), << >>, 1)

\* the n bytes of an immediate operand at pos, or << -1 >> past the end
ImmBytes(code, pos, n) ==
    IF pos + n <= Len(code) THEN [k \in 1..n |-> code[pos + k]] ELSE << -1 >>

\* the instruction at pos whose opcode byte op is at p2, after the prefixes
\* rep and rex; opsz is its operand size, m1 and m2 the ModR/M operand one
\* and two bytes after p2
DecodeOp(code, pos, p2, rep, rex, opsz, op, op2, m1, m2) ==
    CASE op = 15 /\ op2 = 30 /\ rep = PREFIX_MOVSS /\ X86Byte(code, p2 + 2) = OPCODE_END_BRANCH_64 ->
            Insn("endbr64", 0, NoModRM(0), << >>, p2 + 3 - pos)
      [] op = 15 /\ op2 \in {182, 183, 190, 191} /\ m2.ok ->
            Insn(IF op2 \in {182, 183} THEN "movzx" ELSE "movsx", opsz, m2,
                 << IF op2 \in {182, 190} THEN 1 ELSE 2 >>, (p2 + 2 + m2.len) - pos)
      [] op = 15 /\ op2 \in {OPCODE_XMM_MOV_XMM_RM, OPCODE_XMM_MOV_RM_XMM} /\ rep # 0 /\ m2.ok ->
            Insn(IF op2 = OPCODE_XMM_MOV_XMM_RM THEN "xmmload" ELSE "xmmstore",
                 IF rep = PREFIX_MOVSS THEN 4 ELSE 8, m2, << >>, (p2 + 2 + m2.len) - pos)
      [] op >= 80 /\ op < 88 ->
            Insn("push", 8, NoModRM(op - 80 + 8 * (rex % 2)), << >>, p2 + 1 - pos)
      [] op >= 88 /\ op < 96 ->
            Insn("pop", 8, NoModRM(op - 88 + 8 * (rex % 2)), << >>, p2 + 1 - pos)
      [] op = OPCODE_MOV_RM64_R64 /\ m1.ok ->
            Insn("store", opsz, m1, << >>, (p2 + 1 + m1.len) - pos)
      [] op = OPCODE_MOV_R64_RM64 /\ m1.ok ->
            Insn("load", opsz, m1, << >>, (p2 + 1 + m1.len) - pos)
      [] op = 136 /\ m1.ok -> Insn("store", 1, m1, << >>, (p2 + 1 + m1.len) - pos)
      [] op = 99 /\ m1.ok ->
            Insn(IF opsz = 8 THEN "movsx" ELSE "load", opsz, m1, << 4 >>,
                 (p2 + 1 + m1.len) - pos)
      [] op = 131 /\ m1.ok /\ m1.reg % 8 \in {0, 5}
           /\ ImmBytes(code, p2 + 1 + m1.len, 1) # << -1 >> ->
            Insn(IF m1.reg % 8 = 0 THEN "add" ELSE "sub", opsz, m1,
                 << SignExtend8(ImmBytes(code, p2 + 1 + m1.len, 1)[1]) >>,
                 (p2 + 2 + m1.len) - pos)
      [] op >= 176 /\ op < 184 /\ ImmBytes(code, p2 + 1, 1) # << -1 >> ->
            Insn("movimm", 1, NoModRM(op - 176 + 8 * (rex % 2)), ImmBytes(code, p2 + 1, 1),
                 p2 + 2 - pos)
      [] op >= OPCODE_MOV_IMM64_RAX /\ op < OPCODE_MOV_IMM64_RAX + 8
           /\ ImmBytes(code, p2 + 1, opsz) # << -1 >> /\ opsz # 2 ->
            Insn("movimm", opsz, NoModRM(op - OPCODE_MOV_IMM64_RAX + 8 * (rex % 2)),
                 ImmBytes(code, p2 + 1, opsz), p2 + 1 + opsz - pos)
      [] op = OPCODE_CALL_RM64 /\ m1.ok /\ m1.reg % 8 = 2 ->
            Insn("call", 8, m1, << >>, (p2 + 1 + m1.len) - pos)
      [] op = OPCODE_RET -> Insn("ret", 8, NoModRM(0), << >>, p2 + 1 - pos)
      [] op = 5 /\ ImmBytes(code, p2 + 1, 4) # << -1 >> /\ opsz # 2 ->
            Insn("addimm", opsz, NoModRM(MODRM_REG_RAX), ImmBytes(code, p2 + 1, 4), p2 + 5 - pos)
      [] op = 36 /\ ImmBytes(code, p2 + 1, 1) # << -1 >> ->
            Insn("andimm", 1, NoModRM(MODRM_REG_RAX), ImmBytes(code, p2 + 1, 1), p2 + 2 - pos)
      [] OTHER -> Undefined

\* the REX byte r, or 0 when r is none
RexByte(r) == IF r >= REX_BASE_0x40_BIT /\ r < REX_BASE_0x40_BIT + 16 THEN r ELSE 0

\* the instruction at pos that has the legacy prefixes pfx and the REX byte rex
DecodeAfterRex(code, pos, pfx, rex, p2) ==
    DecodeOp(code, pos, p2, pfx.rep, rex,
             IF (rex \div 8) % 2 = 1 THEN 8 ELSE IF pfx.opsize THEN 2 ELSE 4,
             X86Byte(code, p2), X86Byte(code, p2 + 1),
             DecodeModRM(code, p2 + 1, rex), DecodeModRM(code, p2 + 2, rex))

\* the instruction at pos that has the legacy prefixes pfx
DecodeAfterPrefixes(code, pos, pfx, rex) ==
    DecodeAfterRex(code, pos, pfx, rex, pos + pfx.n + (IF rex # 0 THEN 1 ELSE 0))

\* the instruction that starts at offset pos
Decode(code, pos) ==
    DecodeAfterPrefixes(code, pos,
                        LegacyPrefixes(code, pos, [n |-> 0, opsize |-> FALSE, rep |-> 0]),
                        RexByte(X86Byte(code,
                            pos + LegacyPrefixes(code, pos,
                                                 [n |-> 0, opsize |-> FALSE, rep |-> 0]).n)))

RECURSIVE DisassembleUpTo(_, _, _)
\* at most n instructions from offset pos on, the offset after them, and
\* whether the buffer's end, a ret or an undefined encoding was reached
DisassembleUpTo(code, pos, n) ==
    IF pos >= Len(code) THEN [insns |-> << >>, next |-> pos, done |-> TRUE]
    ELSE IF n = 0 THEN [insns |-> << >>, next |-> pos, done |-> FALSE]
    ELSE LET i == Decode(code, pos) IN
         IF i.op \in {"ret", "undefined"}
         THEN [insns |-> << i >>, next |-> pos + i.len, done |-> TRUE]
         ELSE LET r == DisassembleUpTo(code, pos + i.len, n - 1)
              IN  [r EXCEPT !.insns = << i >> \o @]

RECURSIVE Disassemble(_, _)
\* the instructions of a buffer in address order, up to the first ret or
\* undefined encoding, sixteen at a time
Disassemble(code, pos) ==
    LET c == DisassembleUpTo(code, pos, 16)
    IN  IF c.done THEN c.insns ELSE c.insns \o Disassemble(code, c.next)

(***************************************************************************)
(* A machine for the decoded instructions.  A register or stack cell holds   *)
(* eight bytes (k = "int") or an address (k = "ptr") into one of the         *)
(* regions a trampoline is handed by invoke_foreign_function                 *)
(* (cross.c:2329-2333): the FFI_Argument array ("args"), the object behind   *)
(* args[idx].value_ptr ("val"), the return buffer ("ret"), its own stack     *)
(* ("stack", offsets from the stack pointer at entry), the caller's code     *)
(* ("retaddr"), or whatever the caller left in register idx ("entry").       *)
(* What the language leaves undefined is a choice made per run: ub.junk is   *)
(* the byte found wherever nothing was stored, ub.wild is what an access     *)
(* outside every region does ("fault" or "read").                            *)
(***************************************************************************)
IntVal(b) == [k |-> "int", b |-> b, base |-> "none", idx |-> 0, off |-> 0]
PtrVal(base, idx, off) == [k |-> "ptr", b |-> << >>, base |-> base, idx |-> idx, off |-> off]
JunkVal(junk) == IntVal([j \in 1..8 |-> junk])

\* byte j (from 1, least significant first) of a register-sized value
ByteAt(v, j, junk) == IF v.k = "int" THEN v.b[j] ELSE junk
LowBytes(v, n, junk) == [j \in 1..n |-> ByteAt(v, j, junk)]

\* movzx / 32-bit mov: the upper bytes become zero
ZeroExt(bytes) == [j \in 1..8 |-> IF j <= Len(bytes) THEN bytes[j] ELSE 0]
\* movsx / movsxd: the upper bytes copy the sign bit
SignExt(bytes) ==
    [j \in 1..8 |-> IF j <= Len(bytes) THEN bytes[j]
                    ELSE IF bytes[Len(bytes)] >= 128 THEN 255 ELSE 0]

\* writing the low n bytes of a register: 8 replaces it, 4 zeroes the upper
\* half, 1 and 2 keep the upper bytes
WriteReg(old, bytes, junk) ==
    IF Len(bytes) = 8 THEN IntVal(bytes)
    ELSE IF Len(bytes) = 4 THEN IntVal(ZeroExt(bytes))
    ELSE IntVal([j \in 1..8 |-> IF j <= Len(bytes) THEN bytes[j] ELSE ByteAt(old, j, junk)])

\* the sixteen integer registers, by the number ModR/M and REX give them
RAX == MODRM_REG_RAX
RCX == MODRM_REG_RCX
RDX == MODRM_REG_RDX
RBX == MODRM_REG_RBX
RSP == MODRM_REG_RSP
RBP == MODRM_REG_RBP
RSI == MODRM_REG_RSI
RDI == MODRM_REG_RDI
R8 == 8 + MODRM_REG_R8_CODE
R9 == 8 + MODRM_REG_R9_CODE
R10 == 8 + MODRM_REG_R10_CODE
R11 == 8 + MODRM_REG_R11_CODE
R12 == 8 + MODRM_REG_R12_CODE
R13 == 8 + MODRM_REG_R13_CODE
R14 == 8 + MODRM_REG_R14_CODE
R15 == 8 + MODRM_REG_R15_CODE

\* the address an instruction's memory operand names
EffectiveAddress(m, i) ==
    LET b == m.gpr[i.rm] IN IF b.k = "ptr" THEN [b EXCEPT !.off = @ + i.disp] ELSE b

\* the machine after a fault
Fault(m, why) == [m EXCEPT !.status = "fault", !.why = why]

\* n bytes read at address a, as a value; ok is FALSE when the access faults
ReadMem(m, env, a, n) ==
    LET wild == [ok |-> env.ub.wild = "read", v |-> JunkVal(env.ub.junk)] IN
    CASE a.k = "ptr" /\ a.base = "args" ->
            IF n = 8 /\ a.off >= 0 /\ a.off % SizeofFFIArgument = 0
                     /\ a.off \div SizeofFFIArgument < Len(env.args)
            THEN [ok |-> TRUE, v |-> PtrVal("val", a.off \div SizeofFFIArgument + 1, 0)]
            ELSE wild
      [] a.k = "ptr" /\ a.base = "val" ->
            [ok |-> TRUE,
             v |-> IntVal([j \in 1..8 |->
                      IF j > n THEN 0
                      ELSE IF a.off + j >= 1 /\ a.off + j <= Len(env.args[a.idx])
                           THEN env.args[a.idx][a.off + j] ELSE env.ub.junk])]
      [] a.k = "ptr" /\ a.base = "ret" ->
            [ok |-> TRUE,
             v |-> IntVal([j \in 1..8 |->
                      IF j > n THEN 0
                      ELSE IF a.off + j >= 1 /\ a.off + j <= Len(m.ret)
                           THEN m.ret[a.off + j] ELSE env.ub.junk])]
      [] a.k = "ptr" /\ a.base = "stack" ->
            [ok |-> TRUE,
             v |-> IF n = 8 /\ a.off \in DOMAIN m.stack THEN m.stack[a.off]
                   ELSE JunkVal(env.ub.junk)]
      [] OTHER -> wild

\* the low n bytes of value v written at address a
WriteMem(m, env, a, v, n) ==
    CASE a.k = "ptr" /\ a.base = "ret" ->
            [m EXCEPT !.ret = [j \in 1..Len(m.ret) |->
                                 IF j > a.off /\ j <= a.off + n
                                 THEN ByteAt(v, j - a.off, env.ub.junk) ELSE m.ret[j]],
                      !.retwrites = @ + 1,
                      !.overrun = @ \/ a.off < 0 \/ a.off + n > Len(m.ret)]
      [] a.k = "ptr" /\ a.base = "stack" ->
            [m EXCEPT !.stack = (a.off :> (IF n = 8 THEN v
                                           ELSE WriteReg(JunkVal(env.ub.junk),
                                                         LowBytes(v, n, env.ub.junk),
                                                         env.ub.junk))) @@ m.stack]
      [] a.k = "ptr" /\ a.base \in {"args", "val"} ->
            [m EXCEPT !.clobbered = TRUE]
      [] OTHER ->
            IF env.ub.wild = "fault" THEN Fault(m, "wild store") ELSE m

(***************************************************************************)
(* The C type behind each FFI_Type on the three platforms the source builds  *)
(* for (cross.c:14-41): the identity_* targets of the test programme         *)
(* (cross.c:336-470) take and return these types.  long is 8 bytes and       *)
(* wchar_t 4 on Linux and macOS, 4 and 2 on Windows.                         *)
(***************************************************************************)
ABIs == {"sysv", "win64", "aapcs"}

\* sizeof the C type of a supported scalar
Width(abi, t) ==
    CASE t \in {"BOOL", "CHAR", "UCHAR", "SCHAR"} -> 1
      [] t \in {"SHORT", "USHORT", "SSHORT"} -> 2
      [] t \in {"INT", "UINT", "SINT", "FLOAT"} -> 4
      [] t \in {"LONG", "ULONG", "SLONG"} -> IF abi = "win64" THEN 4 ELSE 8
      [] t = "WCHAR" -> IF abi = "win64" THEN 2 ELSE 4
      [] t \in {"LLONG", "ULLONG", "SLLONG", "POINTER", "SIZE_T", "DOUBLE"} -> 8
      [] t \in {"INT128", "UINT128"} -> 16
      [] OTHER -> 0

\* the types a signature may use for a parameter: every kind but the two
\* that are not values
ScalarTypes == FFI_Type \ {"UNKNOWN", "VOID"}

(***************************************************************************)
(* The target function, as the platform's C compiler builds it.  It takes   *)
(* its arguments from the places the ABI names, leaves its result where the *)
(* ABI names, keeps the callee-saved registers and may change all others.   *)
(* An identity target returns its only parameter; any other target returns  *)
(* the constant ConstByte in every byte of its return type.                 *)
(***************************************************************************)
\* the addresses of the two kinds of target
IdentityTarget == << 136, 119, 102, 85, 68, 51, 34, 17 >>
ConstTarget == << 16, 32, 48, 64, 80, 96, 112, 0 >>
ConstByte == 42

\* the registers a call may change
Volatile(abi) ==
    IF abi = "win64" THEN {RAX, RCX, RDX, R8, R9, R10, R11}
    ELSE {RAX, RCX, RDX, RSI, RDI, R8, R9, R10, R11}
VolatileXmm(abi) == IF abi = "win64" THEN 0..5 ELSE 0..15

\* the first integer, second integer and third integer argument registers
IntArgRegs(abi) == IF abi = "win64" THEN << RCX, RDX, R8, R9 >>
                   ELSE << RDI, RSI, RDX, RCX, R8, R9 >>

\* the bytes of the result of a call, least significant first: the identity
\* target's come from its argument registers, low half then high half
TargetResult(m, env) ==
    LET t == env.sig.return_type
        w == Width(env.abi, t)
        regs == IntArgRegs(env.abi)
        shift == IF env.abi = "win64" /\ IsInt128Type(t) THEN 1 ELSE 0
    IN  IF env.sig.func_ptr # IdentityTarget THEN [j \in 1..w |-> ConstByte]
        ELSE IF IsXmmType(t) THEN [j \in 1..w |-> m.xmm[0][j]]
        ELSE [j \in 1..w |->
                 IF j <= 8 THEN ByteAt(m.gpr[regs[1 + shift]], j, env.ub.junk)
                 ELSE ByteAt(m.gpr[regs[2 + shift]], j - 8, env.ub.junk)]

\* the machine as the target returns, before its result is placed: the call
\* is counted, the registers it was entered with are recorded, and the
\* registers the convention lets it overwrite hold indeterminate values
TargetRan(m, env) ==
    [m EXCEPT !.calls = @ + 1,
              !.atcall = [gpr |-> m.gpr, xmm |-> m.xmm, stack |-> m.stack],
              !.gpr = [r \in 0..15 |->
                          IF r \in Volatile(env.abi) THEN JunkVal(env.ub.junk) ELSE @[r]],
              !.xmm = [x \in 0..15 |->
                          IF x \in VolatileXmm(env.abi)
                          THEN [j \in 1..8 |-> env.ub.junk] ELSE @[x]]]

\* the machine after the target has returned res where its convention
\* returns a value of the declared type
TargetReturns(m, env, res, after) ==
    LET t == env.sig.return_type
        padded == [j \in 1..8 |-> IF j <= Len(res) THEN res[j] ELSE env.ub.junk]
    IN  IF t = "VOID" THEN after
        ELSE IF IsXmmType(t) THEN [after EXCEPT !.xmm[0] = padded]
        ELSE IF IsInt128Type(t) /\ env.abi = "win64"
        THEN \* written through the pointer in the first integer register
             LET a == m.gpr[RCX]
                 lo == WriteMem(after, env, a, IntVal([j \in 1..8 |-> res[j]]), 8)
                 hi == IF a.k = "ptr"
                       THEN WriteMem(lo, env, [a EXCEPT !.off = @ + 8],
                                     IntVal([j \in 1..8 |-> res[j + 8]]), 8)
                       ELSE lo
             IN  [hi EXCEPT !.gpr[RAX] = a]
        ELSE IF IsInt128Type(t)
        THEN [after EXCEPT !.gpr[RAX] = IntVal([j \in 1..8 |-> res[j]]),
                           !.gpr[RDX] = IntVal([j \in 1..8 |-> res[j + 8]])]
        ELSE [after EXCEPT !.gpr[RAX] = IntVal(padded)]

\* the machine after "call rax": the target has run and returned
CallTarget(m, env) == TargetReturns(m, env, TargetResult(m, env), TargetRan(m, env))

(***************************************************************************)
(* Executing a trampoline.                                                  *)
(***************************************************************************)
\* the effect of instruction i, whose memory operand is at ea and reads as rd
Execute(m, env, i, ea, rd) ==
    LET junk == env.ub.junk
        sp == m.gpr[RSP]
        src == IF i.mod = MOD_REGISTER THEN m.gpr[i.rm] ELSE rd.v
        srcok == i.mod = MOD_REGISTER \/ rd.ok
    IN
    CASE i.op = "endbr64" -> m
      [] i.op = "push" ->
            IF sp.k = "ptr" /\ sp.base = "stack"
            THEN [m EXCEPT !.gpr[RSP] = [sp EXCEPT !.off = @ - 8],
                           !.stack = ((sp.off - 8) :> m.gpr[i.reg]) @@ m.stack]
            ELSE Fault(m, "push without a stack")
      [] i.op = "pop" ->
            IF sp.k = "ptr" /\ sp.base = "stack"
            THEN LET v == IF sp.off \in DOMAIN m.stack THEN m.stack[sp.off] ELSE JunkVal(junk)
                 IN  IF i.reg = RSP THEN [m EXCEPT !.gpr[RSP] = v]
                     ELSE [m EXCEPT !.gpr[RSP] = [sp EXCEPT !.off = @ + 8], !.gpr[i.reg] = v]
            ELSE Fault(m, "pop without a stack")
      [] i.op = "store" /\ i.mod = MOD_REGISTER ->
            IF i.size = 8 THEN [m EXCEPT !.gpr[i.rm] = m.gpr[i.reg]]
            ELSE [m EXCEPT !.gpr[i.rm] = WriteReg(@, LowBytes(m.gpr[i.reg], i.size, junk), junk)]
      [] i.op = "store" /\ i.mod # MOD_REGISTER -> WriteMem(m, env, ea, m.gpr[i.reg], i.size)
      [] i.op = "load" ->
            IF ~srcok THEN Fault(m, "wild load")
            ELSE IF i.size = 8 THEN [m EXCEPT !.gpr[i.reg] = src]
            ELSE [m EXCEPT !.gpr[i.reg] = WriteReg(@, LowBytes(src, i.size, junk), junk)]
      [] i.op \in {"movzx", "movsx"} ->
            IF ~srcok THEN Fault(m, "wild load")
            ELSE LET low == LowBytes(src, i.imm[1], junk)
                     ext == IF i.op = "movzx" THEN ZeroExt(low) ELSE SignExt(low)
                 IN  [m EXCEPT !.gpr[i.reg] = WriteReg(@, [j \in 1..i.size |-> ext[j]], junk)]
      [] i.op = "xmmload" ->
            IF i.mod = MOD_REGISTER THEN Fault(m, "register form not modelled")
            ELSE IF ~rd.ok THEN Fault(m, "wild load")
            ELSE [m EXCEPT !.xmm[i.reg] = ZeroExt(LowBytes(rd.v, i.size, junk))]
      [] i.op = "xmmstore" ->
            IF i.mod = MOD_REGISTER THEN Fault(m, "register form not modelled")
            ELSE WriteMem(m, env, ea, IntVal(m.xmm[i.reg]), i.size)
      [] i.op \in {"add", "sub"} ->
            LET r == m.gpr[i.rm]
                d == IF i.op = "add" THEN i.imm[1] ELSE 0 - i.imm[1]
            IN  IF i.mod = MOD_REGISTER /\ i.size = 8 /\ r.k = "ptr"
                THEN [m EXCEPT !.gpr[i.rm] = [r EXCEPT !.off = @ + d]]
                ELSE Fault(m, "arithmetic not modelled")
      [] i.op = "movimm" -> [m EXCEPT !.gpr[i.reg] = WriteReg(@, i.imm, junk)]
      [] i.op \in {"addimm", "andimm"} -> [m EXCEPT !.gpr[RAX] = JunkVal(junk)]
      [] i.op = "call" ->
            IF i.mod = MOD_REGISTER /\ m.gpr[i.rm] = IntVal(env.sig.func_ptr)
               /\ sp.k = "ptr" /\ sp.base = "stack"
            THEN CallTarget(m, env)
            ELSE Fault(m, "call of a wrong address")
      [] i.op = "ret" ->
            IF sp = PtrVal("stack", 0, 0) /\ 0 \in DOMAIN m.stack
               /\ m.stack[0] = PtrVal("retaddr", 0, 0)
            THEN [m EXCEPT !.status = "returned", !.gpr[RSP] = PtrVal("stack", 0, 8)]
            ELSE Fault(m, "return to a wrong address")
      [] OTHER -> Fault(m, "undefined instruction")

\* the effect of instruction i, whose memory operand is at ea
Access(m, env, i, ea) ==
    Execute(m, env, i, ea,
            ReadMem(m, env, ea, IF i.op \in {"movzx", "movsx"} THEN i.imm[1] ELSE i.size))

\* the effect of one instruction
Step(m, env, i) == Access(m, env, i, EffectiveAddress(m, i))

RECURSIVE Run(_, _, _, _)
\* fetch, decode and execute from offset pc until the machine stops
Run(code, pc, m, env) ==
    IF m.status # "run" THEN m
    ELSE IF pc >= Len(code) THEN Fault(m, "ran off the buffer")
    ELSE LET i == Decode(code, pc) IN Run(code, pc + i.len, Step(m, env, i), env)

\* the machine as invoke_foreign_function enters the trampoline
\* (cross.c:2329-2333): the three arguments in the first three integer
\* argument registers, the return address on top of the stack
Entry(env) ==
    LET regs == IntArgRegs(env.abi)
        num == IntVal([j \in 1..8 |-> IF j = 1 THEN Len(env.args) % 256
                                      ELSE IF j <= 4 THEN 0 ELSE env.ub.junk])
        buf == IF env.ret.null THEN IntVal([j \in 1..8 |-> 0]) ELSE PtrVal("ret", 0, 0)
    IN  [gpr |-> [r \in 0..15 |->
                     IF r = RSP THEN PtrVal("stack", 0, 0)
                     ELSE IF r = regs[1] THEN PtrVal("args", 0, 0)
                     ELSE IF r = regs[2] THEN num
                     ELSE IF r = regs[3] THEN buf
                     ELSE PtrVal("entry", r, 0)],
         xmm |-> [x \in 0..15 |-> [j \in 1..8 |-> 256 + x]],
         stack |-> (0 :> PtrVal("retaddr", 0, 0)),
         ret |-> env.ret.bytes,
         retwrites |-> 0, overrun |-> FALSE, clobbered |-> FALSE,
         calls |-> 0,
         atcall |-> [gpr |-> << >>, xmm |-> << >>, stack |-> << >>],
         status |-> "run", why |-> ""]

\* what running the published bytes does to the caller's memory and registers
RunTrampoline(code, env) == Run(code, 0, Entry(env), env)

\* the environment of one call
Env(abi, sig, args, ret, ub) == [abi |-> abi, sig |-> sig, args |-> args, ret |-> ret, ub |-> ub]

(***************************************************************************)
(* generate_arm64_aapcs_trampoline (cross.c:1682-2040).  The generator      *)
(* stores 32-bit words; a word is kept here as its four bytes in memory     *)
(* order, computed from the constant's two halves and the fields OR-ed in.   *)
(***************************************************************************)
ARM64_REG_X0 == 0
ARM64_REG_X1 == 1
ARM64_REG_X2 == 2
ARM64_REG_X3 == 3
ARM64_REG_X4 == 4
ARM64_REG_X5 == 5
ARM64_REG_X6 == 6
ARM64_REG_X7 == 7
ARM64_REG_X8 == 8
ARM64_REG_SP == 31
ARM64_REG_V0 == 0
ARM64_REG_V1 == 1
ARM64_REG_V2 == 2
ARM64_REG_V3 == 3
ARM64_REG_V4 == 4
ARM64_REG_V5 == 5
ARM64_REG_V6 == 6
ARM64_REG_V7 == 7
\* register names the generator uses without a #define for them; each is
\* given the number its name carries
ARM64_REG_X9 == 9
ARM64_REG_X10 == 10
ARM64_REG_X16 == 16
ARM64_REG_X19 == 19
ARM64_REG_X20 == 20
ARM64_REG_V8 == 8

\* the word (hi << 16 | lo) | fields, truncated to 32 bits, as four bytes
A64(hi, lo, fields) ==
    LET h == BitOr(hi, (fields \div 65536) % 65536)
        l == BitOr(lo, fields % 65536)
    IN  << l % 256, l \div 256, h % 256, h \div 256 >>

\* 0xF8400000 | ((offset & 0xFFF) << 10) | ((Xn & 0x1F) << 5) | (Xd & 0x1F)
ARM64_LDR_X_X_IMM(Xd, Xn, offset) ==
    A64(63552, 0, BitOr(BitOr(Shl(offset % 4096, 10), Shl(Xn % 32, 5)), Xd % 32))

\* 0xF8000000 | ((offset & 0xFFF) << 10) | ((Xn & 0x1F) << 5) | (Xd & 0x1F)
ARM64_STR_X_X_IMM(Xd, Xn, offset) ==
    A64(63488, 0, BitOr(BitOr(Shl(offset % 4096, 10), Shl(Xn % 32, 5)), Xd % 32))

\* 0xD63F0000 | ((Xn & 0x1F) << 5)
ARM64_BLR(Xn) == A64(54847, 0, Shl(Xn % 32, 5))

\* 0xD65F03C0
ARM64_RET == A64(54879, 960, 0)

\* the five words of the prologue
Arm64Prologue ==
    A64(43455, 31741, 0) \o A64(63744, 957, 0) \o A64(43455, 20467, 0)
    \o A64(43520, 1011, 0) \o A64(43522, 1012, 0)

\* one iteration of the first loop over the parameters
Arm64SizingStep(param_type, c) ==
    IF IsXmmType(param_type)
    THEN IF c.num_xmm_regs_used < 8
         THEN [c EXCEPT !.num_xmm_regs_used = @ + 1]
         ELSE [c EXCEPT !.num_stack_args = @ + 1]
    ELSE IF IsInt128Type(param_type)
    THEN IF c.num_gp_regs_used <= 6
         THEN [c EXCEPT !.num_gp_regs_used = @ + 2]
         ELSE [c EXCEPT !.num_stack_args = @ + 2]
    ELSE IF c.num_gp_regs_used < 8
         THEN [c EXCEPT !.num_gp_regs_used = @ + 1]
         ELSE [c EXCEPT !.num_stack_args = @ + 1]

RECURSIVE Arm64SizingPass(_, _, _, _)
\* the first loop over the parameters, iterations lo .. hi - 1 in order: it
\* reads sig->param_types[i] without testing the pointer
Arm64SizingPass(sig, lo, hi, c) ==
    IF lo >= hi \/ c.nullread THEN c
    ELSE IF sig.param_types = NullArray THEN [c EXCEPT !.nullread = TRUE]
    ELSE IF hi = lo + 1 THEN Arm64SizingStep(ParamAt(sig, lo), c)
    ELSE LET mid == (lo + hi) \div 2
         IN  Arm64SizingPass(sig, mid, hi, Arm64SizingPass(sig, lo, mid, c))

\* final_stack_subtraction: the spilled slots, padded by 8 to a multiple of 16
Arm64StackSubtraction(num_stack_args) ==
    IF (num_stack_args * 8) % 16 # 0 THEN num_stack_args * 8 + 8 ELSE num_stack_args * 8

\* SUB SP, SP, #imm and ADD SP, SP, #imm, emitted when imm is not zero
Arm64SubSp(final_stack_subtraction) ==
    IF final_stack_subtraction > 0
    THEN A64(53504, 0, BitOr(BitOr(Shl(final_stack_subtraction % 4096, 10),
                                     Shl(ARM64_REG_SP, 5)), ARM64_REG_SP))
    ELSE << >>
Arm64AddSp(final_stack_subtraction) ==
    IF final_stack_subtraction > 0
    THEN A64(37120, 0, BitOr(BitOr(Shl(final_stack_subtraction % 4096, 10),
                                     Shl(ARM64_REG_SP, 5)), ARM64_REG_SP))
    ELSE << >>

\* gp_arg_regs[] and fp_arg_regs[]
Arm64GpArgRegs ==
    << ARM64_REG_X0, ARM64_REG_X1, ARM64_REG_X2, ARM64_REG_X3,
       ARM64_REG_X4, ARM64_REG_X5, ARM64_REG_X6, ARM64_REG_X7 >>
Arm64FpArgRegs ==
    << ARM64_REG_V0, ARM64_REG_V1, ARM64_REG_V2, ARM64_REG_V3,
       ARM64_REG_V4, ARM64_REG_V5, ARM64_REG_V6, ARM64_REG_V7 >>

\* LDR Sn/Dn, [X8] as the generator writes it
Arm64FpRegLoad(param_type, reg) ==
    IF param_type = "FLOAT"
    THEN A64(48192, 256, BitOr(reg, Shl(ARM64_REG_X8, 5)))
    ELSE A64(48256, 256, BitOr(reg, Shl(ARM64_REG_X8, 5)))

\* the switch on param_type of the register path; << >> is "default: return 0"
Arm64GprRegLoad(param_type, dest_reg) ==
    CASE param_type \in {"BOOL", "CHAR", "UCHAR"} ->
            A64(14400, 256, BitOr(dest_reg, Shl(ARM64_REG_X8, 5)))
      [] param_type = "SCHAR" ->
            A64(14528, 256, BitOr(dest_reg, Shl(ARM64_REG_X8, 5)))
      [] param_type \in {"USHORT", "WCHAR"} ->
            A64(30784, 256, BitOr(dest_reg, Shl(ARM64_REG_X8, 5)))
      [] param_type \in {"SHORT", "SSHORT"} ->
            A64(30912, 256, BitOr(dest_reg, Shl(ARM64_REG_X8, 5)))
      [] param_type \in {"INT", "UINT", "SINT", "LONG", "ULONG", "LLONG", "ULLONG",
                         "POINTER", "SIZE_T", "SLONG", "SLLONG"} ->
            ARM64_LDR_X_X_IMM(dest_reg, ARM64_REG_X8, 0)
      [] OTHER -> << >>

\* the spill path: a 128-bit pair through X9 and X10, a float or double
\* through V8, anything else through X9 with no switch on its type
Arm64Spill(param_type, stack_offset_from_sp) ==
    IF IsInt128Type(param_type)
    THEN ARM64_LDR_X_X_IMM(ARM64_REG_X9, ARM64_REG_X8, 0)
         \o ARM64_LDR_X_X_IMM(ARM64_REG_X10, ARM64_REG_X8, 8)
         \o ARM64_STR_X_X_IMM(ARM64_REG_X9, ARM64_REG_SP, stack_offset_from_sp)
         \o ARM64_STR_X_X_IMM(ARM64_REG_X10, ARM64_REG_SP, stack_offset_from_sp + 8)
    ELSE IF param_type = "FLOAT"
    THEN A64(48192, 256, BitOr(ARM64_REG_V8, Shl(ARM64_REG_X8, 5)))
         \o A64(48128, 256, BitOr(BitOr(ARM64_REG_V8, Shl(ARM64_REG_SP, 5)),
                                    Shl(stack_offset_from_sp \div 4, 10)))
    ELSE IF param_type = "DOUBLE"
    THEN A64(48256, 256, BitOr(ARM64_REG_V8, Shl(ARM64_REG_X8, 5)))
         \o A64(48160, 256, BitOr(BitOr(ARM64_REG_V8, Shl(ARM64_REG_SP, 5)),
                                    Shl(stack_offset_from_sp \div 8, 10)))
    ELSE ARM64_LDR_X_X_IMM(ARM64_REG_X9, ARM64_REG_X8, 0)
         \o ARM64_STR_X_X_IMM(ARM64_REG_X9, ARM64_REG_SP, stack_offset_from_sp)

\* one iteration of the marshalling loop
Arm64MarshalParam(param_type, i, m) ==
    LET ptr == m.code \o ARM64_LDR_X_X_IMM(ARM64_REG_X8, ARM64_REG_X19, i * SizeofFFIArgument)
        stack_offset_from_sp == m.stack_arg_current_idx * 8
        spilled == ptr \o Arm64Spill(param_type, stack_offset_from_sp)
    IN
    IF IsXmmType(param_type)
    THEN IF m.xmm_reg_idx < 8
         THEN [m EXCEPT !.code = ptr \o Arm64FpRegLoad(param_type,
                                            Arm64FpArgRegs[m.xmm_reg_idx + 1]),
                        !.xmm_reg_idx = @ + 1]
         ELSE [m EXCEPT !.code = spilled, !.stack_arg_current_idx = @ + 1]
    ELSE IF IsInt128Type(param_type)
    THEN IF m.gp_reg_idx <= 6
         THEN [m EXCEPT !.code = ptr
                            \o ARM64_LDR_X_X_IMM(Arm64GpArgRegs[m.gp_reg_idx + 1], ARM64_REG_X8, 0)
                            \o ARM64_LDR_X_X_IMM(Arm64GpArgRegs[m.gp_reg_idx + 2], ARM64_REG_X8, 8),
                        !.gp_reg_idx = @ + 2]
         ELSE [m EXCEPT !.code = spilled, !.stack_arg_current_idx = @ + 2]
    ELSE IF m.gp_reg_idx < 8
         THEN LET load == Arm64GprRegLoad(param_type, Arm64GpArgRegs[m.gp_reg_idx + 1]) IN
              IF load = << >> THEN [m EXCEPT !.code = ptr, !.failed = TRUE]
              ELSE [m EXCEPT !.code = ptr \o load, !.gp_reg_idx = @ + 1]
         ELSE [m EXCEPT !.code = spilled, !.stack_arg_current_idx = @ + 1]

RECURSIVE Arm64MarshalLoop(_, _, _, _)
\* for (i = 0; i < num_params; ++i), iterations lo .. hi - 1 in order, left
\* at the first "return 0"
Arm64MarshalLoop(sig, lo, hi, m) ==
    IF lo >= hi \/ m.failed THEN m
    ELSE IF hi = lo + 1 THEN Arm64MarshalParam(ParamAt(sig, lo), lo, m)
    ELSE LET mid == (lo + hi) \div 2
         IN  Arm64MarshalLoop(sig, mid, hi, Arm64MarshalLoop(sig, lo, mid, m))

\* the marshalling pass, guarded by num_params > 0 && param_types != NULL
Arm64Marshal(sig, code) ==
    IF sig.num_params > 0 /\ sig.param_types # NullArray
    THEN Arm64MarshalLoop(sig, 0, sig.num_params, MarshalStart(code, 0))
    ELSE MarshalStart(code, 0)

\* MOVZ X16 and three MOVK X16 with the four quarters of the address, BLR X16
Arm64CallTarget(sig) ==
    LET q(n) == sig.func_ptr[2 * n + 1] + 256 * sig.func_ptr[2 * n + 2] IN
    A64(53888, 0, BitOr(Shl(q(0), 5), ARM64_REG_X16))
    \o A64(62080, 0, BitOr(BitOr(Shl(q(1), 5), Shl(1, 21)), ARM64_REG_X16))
    \o A64(62080, 0, BitOr(BitOr(Shl(q(2), 5), Shl(2, 21)), ARM64_REG_X16))
    \o A64(62080, 0, BitOr(BitOr(Shl(q(3), 5), Shl(3, 21)), ARM64_REG_X16))
    \o ARM64_BLR(ARM64_REG_X16)

\* the switch on return_type; nothing is emitted for void
Arm64ReturnStore(return_type) ==
    CASE return_type = "VOID" -> << >>
      [] return_type \in {"BOOL", "CHAR", "UCHAR", "SCHAR"} ->
            A64(14336, 0, BitOr(ARM64_REG_X0, Shl(ARM64_REG_X20, 5)))
      [] return_type \in {"SHORT", "USHORT", "SSHORT", "WCHAR"} ->
            A64(30720, 0, BitOr(ARM64_REG_X0, Shl(ARM64_REG_X20, 5)))
      [] return_type \in {"INT", "UINT", "SINT", "LONG", "ULONG", "SLONG"} ->
            A64(47104, 0, BitOr(ARM64_REG_X0, Shl(ARM64_REG_X20, 5)))
      [] return_type \in {"LLONG", "ULLONG", "POINTER", "SIZE_T", "SLLONG"} ->
            ARM64_STR_X_X_IMM(ARM64_REG_X0, ARM64_REG_X20, 0)
      [] return_type = "FLOAT" ->
            A64(48128, 0, BitOr(ARM64_REG_V0, Shl(ARM64_REG_X20, 5)))
      [] return_type = "DOUBLE" ->
            A64(48160, 0, BitOr(ARM64_REG_V0, Shl(ARM64_REG_X20, 5)))
      [] return_type \in {"INT128", "UINT128"} ->
            ARM64_STR_X_X_IMM(ARM64_REG_X0, ARM64_REG_X20, 0)
            \o ARM64_STR_X_X_IMM(ARM64_REG_X1, ARM64_REG_X20, 8)
      [] OTHER -> Unsupported

\* ADD SP (when space was reserved), two LDP, RET
Arm64Epilogue(final_stack_subtraction) ==
    Arm64AddSp(final_stack_subtraction)
    \o A64(43201, 20467, 0) \o A64(43201, 31741, 0) \o ARM64_RET

\* the generator after its sizing pass has counted c
Arm64Emit(sig, c) ==
    IF c.nullread THEN GenResult(0, Arm64Prologue, TRUE)
    ELSE AfterMarshal(Arm64Marshal(sig, Arm64Prologue
                                        \o Arm64SubSp(Arm64StackSubtraction(c.num_stack_args))),
                      Arm64CallTarget(sig),
                      Arm64ReturnStore(sig.return_type),
                      Arm64Epilogue(Arm64StackSubtraction(c.num_stack_args)))

\* the whole generator
generate_arm64_aapcs_trampoline(sig) ==
    Arm64Emit(sig, Arm64SizingPass(sig, 0, sig.num_params, SizingStart(0)))

(***************************************************************************)
(* The platform services and the object life cycle (cross.c:576-683 and     *)
(* 2052-2337).                                                               *)
(***************************************************************************)
\* #define FFI_TESTING 1: the build in which BAIL_OUT is exit(255)
FFI_TESTING == 1

\* new_ffi_func->trampoline_size = 512
TrampolineSize == 512

\* sysconf(_SC_PAGESIZE), and the granule VirtualAlloc rounds a request to
PageSize == 4096

\* aligned_size = (size + page_size - 1) & ~(page_size - 1)
AlignedSize(size) == ((size + PageSize - 1) \div PageSize) * PageSize

\* BAIL_OUT: with FFI_TESTING it prints and calls exit(255), which does not
\* return; without it the macro expands to nothing
BAIL_OUT == IF FFI_TESTING = 1 THEN "exit" ELSE "continue"

\* ffi_create_executable_memory: os is what mmap / VirtualAlloc answers.
\* A refusal reaches BAIL_OUT; when that returns the function hands back
\* what the system call gave (MAP_FAILED from mmap, NULL from VirtualAlloc)
ffi_create_executable_memory(abi, size, os) ==
    IF os = "grants" THEN [mem |-> "region", capacity |-> AlignedSize(size), exit |-> FALSE]
    ELSE IF BAIL_OUT = "exit" THEN [mem |-> NULL, capacity |-> 0, exit |-> TRUE]
    ELSE [mem |-> IF abi = "win64" THEN NULL ELSE "MAP_FAILED", capacity |-> 0, exit |-> FALSE]

\* ffi_free_executable_memory: the number of regions it hands back to the system
ffi_free_executable_memory(mem) == IF mem # NULL THEN 1 ELSE 0

\* the range ffi_free_executable_memory(mem, size) asks the system to
\* release: munmap(mem, aligned_size), or VirtualFree(mem, 0, MEM_RELEASE),
\* which releases the whole allocation that starts at mem
FreedRange(abi, mem, size) ==
    IF mem = NULL THEN << >>
    ELSE << [addr |-> mem, len |-> IF abi = "win64" THEN 0 ELSE AlignedSize(size)] >>

\* a build that flushes nothing
FlushSkipped(mem, len) == << >>

\* ffi_flush_instruction_cache: the range it is called with
ffi_flush_instruction_cache(mem, len) == << [addr |-> mem, len |-> len] >>

\* generate_generic_trampoline: the generator the build selects
generate_generic_trampoline(abi, sig) ==
    CASE abi = "sysv" -> generate_x86_64_sysv_trampoline(sig)
      [] abi = "win64" -> generate_x86_64_win64_trampoline(sig)
      [] abi = "aapcs" -> generate_arm64_aapcs_trampoline(sig)

\* the caller holds no object
NoObject == [live |-> FALSE]

\* the fields create_ffi_function assigns
NewObject(debug_name, sig, mem, code) ==
    [live |-> TRUE, debug_name |-> debug_name, sig |-> sig,
     trampoline_size |-> TrampolineSize, trampoline_code |-> mem, code |-> code]

\* if (manual_trampoline_bytes && manual_trampoline_size > 0)
UseManualBytes(manual) == Len(manual) > 0

\* if (manual_trampoline_size > new_ffi_func->trampoline_size)
ManualTooLarge(manual_trampoline_size, trampoline_size) ==
    manual_trampoline_size > trampoline_size

\* a size check that looks for an empty result only
GenerationEmpty(actual_code_size, trampoline_size) == actual_code_size = 0

\* if (actual_code_size == 0 || actual_code_size > new_ffi_func->trampoline_size)
GenerationFailed(actual_code_size, trampoline_size) ==
    actual_code_size = 0 \/ actual_code_size > trampoline_size

\* what one call of create_ffi_function did: its result ("object", "NULL",
\* "exit" when the process ended in exit(255), "crash" when it ended in a
\* fault), the object, the number of heap objects allocated and freed, of
\* regions mapped and released, the flush calls, the size the generator
\* reported (-1 if none did), and the number of bytes stored from the region's base
CreateResult(result, object, heap, region, flushed, reported, written, capacity) ==
    [result |-> result, object |-> object,
     mallocs |-> heap[1], frees |-> heap[2],
     allocs |-> region[1], releases |-> region[2],
     flushed |-> flushed, reported |-> reported, written |-> written, capacity |-> capacity]

\* create_ffi_function once the generator has answered g into region r:
\* the size check, the cleanup of a failure, the flush and the return
PublishGenerated(debug_name, sig, beyond, r, g) ==
    IF g.nullread
    THEN CreateResult("crash", NoObject, << 1, 0 >>, << 1, 0 >>, << >>,
                      -1, Len(g.code), r.capacity)
    ELSE IF Len(g.code) > r.capacity /\ beyond = "fault"
    THEN CreateResult("crash", NoObject, << 1, 0 >>, << 1, 0 >>, << >>,
                      -1, r.capacity, r.capacity)
    ELSE IF GenerationFailed(g.ret, TrampolineSize)
    THEN CreateResult("NULL", NoObject, << 1, 1 >>,
                      << 1, ffi_free_executable_memory(r.mem) >>, << >>,
                      g.ret, Len(g.code), r.capacity)
    ELSE CreateResult("object", NewObject(debug_name, sig, r.mem, g.code), << 1, 0 >>, << 1, 0 >>,
                      ffi_flush_instruction_cache(r.mem, g.ret),
                      g.ret, Len(g.code), r.capacity)

\* create_ffi_function once ffi_create_executable_memory has answered r
CreateInRegion(abi, debug_name, sig, manual, beyond, r) ==
    IF r.exit
    THEN CreateResult("exit", NoObject, << 1, 0 >>, << 0, 0 >>, << >>, -1, 0, 0)
    ELSE IF r.mem = NULL
    THEN CreateResult("NULL", NoObject, << 1, 1 >>, << 0, 0 >>, << >>, -1, 0, 0)
    ELSE IF r.mem # "region"
    THEN CreateResult("crash", NoObject, << 1, 0 >>, << 0, 0 >>, << >>, -1, 0, 0)
    ELSE IF UseManualBytes(manual)
    THEN IF ManualTooLarge(Len(manual), TrampolineSize)
         THEN CreateResult("NULL", NoObject, << 1, 1 >>,
                           << 1, ffi_free_executable_memory(r.mem) >>, << >>,
                           -1, 0, r.capacity)
         ELSE CreateResult("object", NewObject(debug_name, sig, r.mem, manual), << 1, 0 >>, << 1, 0 >>,
                           ffi_flush_instruction_cache(r.mem, Len(manual)),
                           -1, Len(manual), r.capacity)
    ELSE PublishGenerated(debug_name, sig, beyond, r, generate_generic_trampoline(abi, sig))

\* create_ffi_function.  heap is what malloc answers, os what the mapping
\* call answers, beyond what a store past the end of the mapping does
\* ("fault", or "corrupt" when other memory of the process lies there)
create_ffi_function(abi, debug_name, sig, manual, heap, os, beyond) ==
    IF heap = "exhausted"
    THEN CreateResult("NULL", NoObject, << 0, 0 >>, << 0, 0 >>, << >>, -1, 0, 0)
    ELSE CreateInRegion(abi, debug_name, sig, manual, beyond,
                        ffi_create_executable_memory(abi, TrampolineSize, os))

\* a destroy_ffi_function that frees the object and keeps the region
DestroyKeepsRegion(ffi_func) ==
    IF ~ffi_func.live
    THEN [releases |-> 0, frees |-> 0, trampoline_code |-> NULL]
    ELSE [releases |-> 0, frees |-> 1, trampoline_code |-> NULL]

\* destroy_ffi_function: the regions released and heap objects freed, and
\* the handle as the function leaves it
destroy_ffi_function(ffi_func) ==
    IF ~ffi_func.live
    THEN [releases |-> 0, frees |-> 0, trampoline_code |-> NULL]
    ELSE [releases |-> ffi_free_executable_memory(ffi_func.trampoline_code),
          frees |-> 1, trampoline_code |-> NULL]

(***************************************************************************)
(* invoke_foreign_function (cross.c:2217-2337).  return_value_out is the    *)
(* caller's FFI_Argument for the result: absent (null = TRUE) or present     *)
(* with a value_ptr that is NullBuffer or a buffer.                          *)
(***************************************************************************)
\* no FFI_Argument for the result, and one around value_ptr
NoReturnArgument == [null |-> TRUE, value_ptr |-> NullBuffer]
ReturnArgument(value_ptr) == [null |-> FALSE, value_ptr |-> value_ptr]

\* a dispatcher that refuses only a call with too few arguments
ArityTooFew(sig, num_args) == num_args < sig.num_params

\* if (num_args != sig->num_params)
ArityMismatch(sig, num_args) == num_args # sig.num_params

\* if (return_value_out) { ... if (!actual_return_buffer_ptr &&
\*                                 sig->return_type != FFI_TYPE_VOID)
ValuePtrMissing(sig, return_value_out) ==
    ~return_value_out.null /\ return_value_out.value_ptr.null /\ sig.return_type # "VOID"

\* a dispatcher that calls through the handle without looking at it
TrampolineUnchecked(ffi_func) == FALSE

\* if (!sig->trampoline_code)
TrampolineMissing(ffi_func) == ffi_func.trampoline_code = NULL

\* a dispatcher without the final check of the return buffer
ReturnBufferUnchecked(sig, actual_return_buffer_ptr) == FALSE

\* a dispatcher that wants a return buffer whatever the return type
ReturnBufferRequired(sig, actual_return_buffer_ptr) == actual_return_buffer_ptr.null

\* if (sig->return_type != FFI_TYPE_VOID && actual_return_buffer_ptr == NULL)
ReturnBufferMissing(sig, actual_return_buffer_ptr) ==
    sig.return_type # "VOID" /\ actual_return_buffer_ptr.null

\* the debugging loop: the indexes i whose pointee *args[i].value_ptr the
\* dispatcher itself reads to print it
PeekedArgs(sig, args, num_args) ==
    IF num_args > 0 /\ sig.param_types # NullArray
    THEN {i \in 0..(num_args - 1) :
             i < sig.num_params /\ ParamAt(sig, i) \in ScalarTypes}
    ELSE {}

\* what the words of an AAPCS64 trampoline do when the processor runs them
\* is not derived here: the return buffer is left as it was, or overwritten,
\* and the trampoline returns or faults, as hw says
Arm64Outcome(env, hw) ==
    LET m == Entry(env)
        changed == [j \in 1..Len(m.ret) |-> env.ub.junk]
    IN  CASE hw = "kept" -> [m EXCEPT !.status = "returned", !.calls = 1]
          [] hw = "stored" -> [m EXCEPT !.status = "returned", !.calls = 1,
                                        !.ret = changed, !.retwrites = 1]
          [] OTHER -> Fault(m, "not derived")

\* trampoline(args, num_args, actual_return_buffer_ptr): the machine when the
\* call is over
EnterTrampoline(ffi_func, env, hw) ==
    IF ffi_func.trampoline_code = NULL THEN Fault(Entry(env), "call through NULL")
    ELSE IF env.abi = "aapcs" THEN Arm64Outcome(env, hw)
    ELSE RunTrampoline(ffi_func.code, env)

\* what one call of invoke_foreign_function did: its result ("true",
\* "false", or "crash" when the process faulted inside the trampoline), how
\* often the trampoline was entered and with which three arguments, the
\* pointees the dispatcher read, and the machine the trampoline left
InvokeResult(result, entered, entry, peeked, m) ==
    [result |-> result, entered |-> entered, entry |-> entry, peeked |-> peeked, m |-> m]

\* the machine of a call that never reached the trampoline
NotEntered(env) == [Entry(env) EXCEPT !.status = "not entered"]

\* "actual_return_buffer_ptr = return_value_out->value_ptr", NULL without
\* a return_value_out
ActualReturnBuffer(return_value_out) ==
    IF return_value_out.null THEN NullBuffer ELSE return_value_out.value_ptr

\* the call through the function pointer and "return true"
CallTrampoline(entry, peeked, m) ==
    InvokeResult(IF m.status = "returned" THEN "true" ELSE "crash", 1, << entry >>, peeked, m)

\* the checks of invoke_foreign_function in their order, then the call
Dispatch(ffi_func, args, num_args, return_value_out, hw, env) ==
    IF ArityMismatch(ffi_func.sig, num_args)
    THEN InvokeResult("false", 0, << >>, {}, NotEntered(env))
    ELSE IF ValuePtrMissing(ffi_func.sig, return_value_out)
    THEN InvokeResult("false", 0, << >>, {}, NotEntered(env))
    ELSE IF TrampolineMissing(ffi_func)
    THEN InvokeResult("false", 0, << >>, {}, NotEntered(env))
    ELSE IF ReturnBufferMissing(ffi_func.sig, env.ret)
    THEN InvokeResult("false", 0, << >>, PeekedArgs(ffi_func.sig, args, num_args),
                      NotEntered(env))
    ELSE CallTrampoline([args |-> args, num_args |-> num_args, buffer |-> env.ret],
                        PeekedArgs(ffi_func.sig, args, num_args),
                        EnterTrampoline(ffi_func, env, hw))

\* invoke_foreign_function
invoke_foreign_function(abi, ffi_func, args, num_args, return_value_out, ub, hw) ==
    Dispatch(ffi_func, args, num_args, return_value_out, hw,
             Env(abi, ffi_func.sig, args, ActualReturnBuffer(return_value_out), ub))

(***************************************************************************)
(* The program: a caller on one platform that declares one signature,       *)
(* creates a trampoline object for it, invokes it and destroys it, in any   *)
(* order and with any of the inputs below.  abi is the platform the program *)
(* was built for, want the signature it declares, proc whether the process  *)
(* still runs, obj the object it holds, live the executable regions and     *)
(* heap objects not yet given back, last what the latest call did,          *)
(* g_ret_storage the 16 bytes the caller keeps for results, ncalls how many *)
(* invocations have used that storage.  Where several threads invoke the    *)
(* object, threads is what each of them is doing, double_tap_ctx the state  *)
(* of the diagnostics every call of note and diag passes through, and       *)
(* written the memory the invocations have written so far.  Where the       *)
(* statements of create_ffi_function are followed one by one, creating is   *)
(* how far the call has come, what the region holds and what was flushed.   *)
(***************************************************************************)
VARIABLES abi, want, proc, obj, live, last, g_ret_storage, ncalls,
          threads, double_tap_ctx, written, creating

vars == << abi, want, proc, obj, live, last, g_ret_storage, ncalls,
           threads, double_tap_ctx, written, creating >>

\* no call of create_ffi_function is under way
NotCreating == [pc |-> "idle", in |-> << >>, region |-> << >>, flushed |-> << >>]

\* the variables only concurrent callers change
thread_vars == << threads, double_tap_ctx, written >>

\* an FFI signature as create_ffi_function receives it
Signature(return_type, param_types, func_ptr) ==
    [return_type |-> return_type, num_params |-> Len(param_types),
     param_types |-> param_types, func_ptr |-> func_ptr]

\* n parameters of type t
Repeat(t, n) == [i \in 1..n |-> t]

\* T identity(T), for every supported scalar T (cross.c:347-566)
IdentitySigs == {Signature(t, << t >>, IdentityTarget) : t \in ScalarTypes}

\* no parameter and every return type, one parameter of every type
NoParamSigs == {Signature(t, << >>, ConstTarget) : t \in FFI_Type}
OneParamSigs == {Signature("LLONG", << t >>, ConstTarget) : t \in FFI_Type}

\* up to MaxRun parameters of one type followed by none, one or MaxRun - 1
\* of another: long enough to use up the registers of either class and to
\* need stack offsets of 128 and more
RunTypes == {"LLONG", "DOUBLE", "UINT", "VOID"}
RunSigs ==
    {Signature("LLONG", Repeat(t1, n1) \o Repeat(t2, n2), ConstTarget) :
        t1 \in RunTypes, n1 \in 0..MaxRun, t2 \in RunTypes, n2 \in {0, 1, MaxRun - 1}}

\* parameter lists whose code does not fit the trampoline or the region
LongSigs ==
    {Signature("LLONG", Repeat("LLONG", n), ConstTarget) : n \in {MaxParams \div 8, MaxParams}}

\* a 128-bit integer after 0 .. MaxRun 64-bit ones, followed by none, one or
\* two more parameters of either kind: the pair finds two registers, one
\* register or none, and later parameters find what it left
PairSigs ==
    {Signature("LLONG", Repeat("LLONG", n) \o << "INT128" >> \o Repeat(t, k), ConstTarget) :
        n \in 0..MaxRun, t \in {"LLONG", "INT128"}, k \in 0..2}

\* sixteen stack slots on SysV: a reservation of 128 bytes, the first that
\* does not fit a signed 8-bit immediate
WideSigs == {Signature("LLONG", Repeat("LLONG", 22), ConstTarget)}

\* a 128-bit result after 1 .. 5 integer parameters, and after a double
\* among them
PairReturnSigs ==
    {Signature("INT128", Repeat("LLONG", n), ConstTarget) : n \in 1..5}
    \cup {Signature("UINT128", << "LLONG", "DOUBLE", "LLONG" >>, ConstTarget)}

\* a parameter of every scalar type twice, before and after enough 64-bit
\* integers, or doubles for a floating-point type, to use up the registers
\* of its class: the first is passed in a register and the last on the stack
SpillSigs ==
    {Signature("LLONG",
               << t >> \o Repeat(IF IsXmmType(t) THEN "DOUBLE" ELSE "LLONG", MaxRun - 1)
                       \o << t >>,
               ConstTarget) :
        t \in ScalarTypes}

\* void print_two_ints(int, int), the signature of test_print_two_ints
VoidSigs == {Signature("VOID", << "INT", "INT" >>, ConstTarget)}

\* num_params > 0 with param_types == NULL
NullParamSig ==
    [return_type |-> "VOID", num_params |-> 1, param_types |-> NullArray,
     func_ptr |-> ConstTarget]

Signatures ==
    IdentitySigs \cup NoParamSigs \cup OneParamSigs \cup RunSigs \cup LongSigs
    \cup PairSigs \cup WideSigs \cup PairReturnSigs \cup SpillSigs \cup VoidSigs
    \cup {NullParamSig}

\* manual_trampoline_bytes: a lone "ret", and one byte more than fits
ManualRet == << OPCODE_RET >>
ManualOversize == [j \in 1..(TrampolineSize + 1) |-> OPCODE_RET]

\* the signatures for which the caller also tries manual bytes, an
\* exhausted heap and a system that refuses the mapping
BasicSigs ==
    {Signature("INT", << "INT" >>, IdentityTarget), Signature("VOID", << >>, ConstTarget)}

\* the calls of create_ffi_function the caller may make for a signature
CreateInputs(sig) ==
    {[manual |-> << >>, heap |-> "ok", os |-> "grants", beyond |-> b] :
        b \in {"fault", "corrupt"}}
    \cup
    {[manual |-> manual, heap |-> heap, os |-> os, beyond |-> "fault"] :
        manual \in IF sig \in BasicSigs THEN {<< >>, ManualRet, ManualOversize} ELSE {<< >>},
        heap \in IF sig \in BasicSigs THEN {"ok", "exhausted"} ELSE {"ok"},
        os \in IF sig \in BasicSigs THEN {"grants", "refuses"} ELSE {"grants"}}

\* the 16 bytes the caller provides for the result, filled with 0xCC
Slot == [j \in 1..16 |-> 204]

\* the value behind args[i - 1].value_ptr: v chooses all zero, all ones, or
\* a pattern that starts with i and has no two bytes alike
Value(v, i, w, t) ==
    IF t = "BOOL" THEN << IF v = "zero" THEN 0 ELSE 1 >>
    ELSE [j \in 1..w |-> CASE v = "zero" -> 0
                           [] v = "ones" -> 255
                           [] OTHER -> IF j = 1 THEN i ELSE 128 + j]

\* the FFI_Argument array of a call with num_args arguments
Args(a, sig, num_args, v) ==
    [i \in 1..num_args |->
        LET t == IF i <= sig.num_params /\ sig.param_types # NullArray
                 THEN sig.param_types[i] ELSE "LLONG"
        IN  Value(v, i, IF t \in ScalarTypes THEN Width(a, t) ELSE 8, t)]

\* what the language leaves open in one run
UBs == {[junk |-> 170, wild |-> "fault"], [junk |-> 85, wild |-> "read"]}

\* a signature object the caller filled in itself, with no trampoline
Handmade(sig) ==
    [live |-> TRUE, debug_name |-> "handmade", sig |-> sig,
     trampoline_size |-> 0, trampoline_code |-> NULL, code |-> << >>]

\* the objects a caller can pass to invoke_foreign_function: the one it
\* created, or else one it filled in itself
Callable(o, sig) ==
    IF o.live THEN {o} ELSE IF sig \in BasicSigs THEN {Handmade(sig)} ELSE {}

\* the calls of invoke_foreign_function the caller may make on an object:
\* the right number of arguments and a buffer, with every value; no
\* FFI_Argument for the result, or one with a null value_ptr; one argument
\* too many or too few
InvokeInputs(a, o) ==
    LET n == o.sig.num_params
        one == CHOOSE u \in UBs : u.wild = "fault"
    IN  {[num_args |-> n, ret |-> "buffer", val |-> v, ub |-> u, hw |-> h] :
            v \in IF o.sig.func_ptr = IdentityTarget THEN {"pattern", "zero", "ones"}
                  ELSE {"pattern"},
            u \in UBs,
            h \in IF a = "aapcs" THEN {"kept", "stored", "fault"} ELSE {"kept"}}
        \cup
        {[num_args |-> n, ret |-> r, val |-> "pattern", ub |-> one, hw |-> "kept"] :
            r \in {"none", "nullptr"}}
        \cup
        {[num_args |-> k, ret |-> "buffer", val |-> "pattern", ub |-> one, hw |-> "kept"] :
            k \in {n + 1} \cup (IF n > 0 THEN {n - 1} ELSE {})}

Init ==
    /\ abi \in ABIs
    /\ want \in Signatures
    /\ proc = "running"
    /\ obj = NoObject
    /\ live = [regions |-> 0, objects |-> 0]
    /\ last = [op |-> "none"]
    /\ g_ret_storage = Slot
    /\ ncalls = 0
    /\ threads = << >>
    /\ double_tap_ctx = [initialized |-> FALSE]
    /\ written = {}
    /\ creating = NotCreating

\* the caller's state after create_ffi_function has returned r
CreateReturns(in, r) ==
    /\ obj' = r.object
    /\ proc' = CASE r.result = "exit" -> "exited"
                 [] r.result = "crash" -> "crashed"
                 [] OTHER -> "running"
    /\ live' = [regions |-> live.regions + r.allocs - r.releases,
                objects |-> live.objects + r.mallocs - r.frees]
    /\ last' = [op |-> "create", sig |-> want, manual |-> in.manual,
                heap |-> in.heap, os |-> in.os,
                out |-> [r EXCEPT !.object = NoObject]]

\* obj = create_ffi_function(...)
Create ==
    /\ proc = "running"
    /\ ~obj.live
    /\ \E in \in CreateInputs(want) :
          CreateReturns(in, create_ffi_function(abi,
                                IF in.manual = << >> THEN "generated" ELSE "manual",
                                want, in.manual, in.heap, in.os, in.beyond))
    /\ UNCHANGED << abi, want, g_ret_storage, ncalls, thread_vars, creating >>

\* the FFI_Argument the caller passes for the result
ReturnValueOut(ret) ==
    CASE ret = "none" -> NoReturnArgument
      [] ret = "nullptr" -> ReturnArgument(NullBuffer)
      [] OTHER -> ReturnArgument(Buffer(Slot))

\* the caller's state after invoke_foreign_function has returned r
InvokeReturns(o, in, args, r) ==
    /\ last' = [op |-> "invoke", object |-> o.debug_name, sig |-> o.sig,
                trampoline_code |-> o.trampoline_code,
                num_args |-> in.num_args, ret |-> in.ret, val |-> in.val,
                args |-> args, ub |-> in.ub,
                slot_before |-> Slot,
                slot_after |-> IF in.ret = "buffer" THEN r.m.ret ELSE Slot,
                out |-> r]
    /\ proc' = IF r.result = "crash" THEN "crashed" ELSE proc

\* invoke_foreign_function on object o with the array args
InvokeWith(o, in, args) ==
    InvokeReturns(o, in, args,
                  invoke_foreign_function(abi, o, args, in.num_args, ReturnValueOut(in.ret),
                                          in.ub, in.hw))

\* invoke_foreign_function(o, args, num_args, return_value_out)
Invoke ==
    /\ proc = "running"
    /\ \E o \in Callable(obj, want) : \E in \in InvokeInputs(abi, o) :
          InvokeWith(o, in, Args(abi, o.sig, in.num_args, in.val))
    /\ UNCHANGED << abi, want, obj, live, g_ret_storage, ncalls, thread_vars, creating >>

\* destroy_ffi_function(p), p the object or NULL
Destroy ==
    /\ proc = "running"
    /\ \E p \in {obj, NoObject} :
          LET r == destroy_ffi_function(p) IN
          /\ obj' = IF p.live THEN NoObject ELSE obj
          /\ live' = [regions |-> live.regions - r.releases,
                      objects |-> live.objects - r.frees]
          /\ last' = [op |-> "destroy", given |-> p.live,
                      releases |-> r.releases, frees |-> r.frees,
                      released |-> IF p.live /\ r.releases > 0
                                   THEN FreedRange(abi, p.trampoline_code, p.trampoline_size)
                                   ELSE << >>,
                      trampoline_code |-> r.trampoline_code]
    /\ UNCHANGED << abi, want, proc, g_ret_storage, ncalls, thread_vars, creating >>

Next == Create \/ Invoke \/ Destroy

Spec == Init /\ [][Next]_vars

(***************************************************************************)
(* Properties of the dispatcher.                                            *)
(***************************************************************************)
\* the latest call was invoke_foreign_function
Invoked == last.op = "invoke"

\* C1. Arity law: whenever invoke_foreign_function is given a num_args that
\* differs from the signature's num_params it returns false, the trampoline
\* is not entered, the target is not called, and the caller's return buffer
\* holds the bytes it held before the call.
ArityLaw ==
    (Invoked /\ last.num_args # last.sig.num_params)
        => /\ last.out.result = "false"
           /\ last.out.entered = 0
           /\ last.out.m.calls = 0
           /\ last.out.m.retwrites = 0
           /\ last.slot_after = last.slot_before

\* a generated trampoline was invoked with one argument too many and a buffer
ArityLawWitness ==
    /\ Invoked
    /\ last.object = "generated"
    /\ last.num_args = last.sig.num_params + 1
    /\ last.ret = "buffer"
    /\ last.out.result = "false"

\* C2. Return-slot law: for a return type other than Void,
\* invoke_foreign_function returns false and does not enter the trampoline,
\* both when return_value_out is NULL and when its value_ptr is NULL.
ReturnSlotLaw ==
    (Invoked /\ last.sig.return_type # "VOID" /\ last.ret \in {"none", "nullptr"})
        => /\ last.out.result = "false"
           /\ last.out.entered = 0
           /\ last.out.m.calls = 0

\* a generated trampoline with a return value was invoked with the right
\* number of arguments and no return_value_out
ReturnSlotLawWitness ==
    /\ Invoked
    /\ last.object = "generated"
    /\ last.sig.return_type # "VOID"
    /\ last.num_args = last.sig.num_params
    /\ last.ret = "none"
    /\ last.out.result = "false"

\* the return buffer pointer the dispatcher derives from return_value_out
ExpectedBuffer == IF last.ret = "buffer" THEN Buffer(Slot) ELSE NullBuffer

\* C3. invoke_foreign_function returns true exactly when the trampoline was
\* entered once, with args, num_args and the return buffer pointer, and came
\* back; when it returns false, which it does on an arity mismatch, a missing
\* return slot and a NULL trampoline_code, the trampoline was not entered
\* and the return slot was not written.
InvokeOutcome ==
    Invoked =>
        /\ last.out.result = "true"
              => /\ last.out.entered = 1
                 /\ last.out.entry = << [args |-> last.args, num_args |-> last.num_args,
                                         buffer |-> ExpectedBuffer] >>
        /\ (last.out.entered = 1 /\ last.out.m.status = "returned")
              => last.out.result = "true"
        /\ last.out.result = "false"
              => /\ last.out.entered = 0
                 /\ last.out.m.retwrites = 0
                 /\ last.slot_after = last.slot_before
        /\ (\/ last.num_args # last.sig.num_params
            \/ last.sig.return_type # "VOID" /\ last.ret \in {"none", "nullptr"}
            \/ last.trampoline_code = NULL)
              => last.out.result = "false"

\* a generated x86-64 trampoline was entered once, called its target once,
\* came back, and invoke_foreign_function returned true
InvokeOutcomeWitness ==
    /\ Invoked
    /\ abi = "sysv"
    /\ last.object = "generated"
    /\ last.out.result = "true"
    /\ last.out.entered = 1
    /\ last.out.m.calls = 1

(***************************************************************************)
(* Properties of what a trampoline does.                                    *)
(***************************************************************************)
\* the latest call invoked a trampoline that create_ffi_function generated
\* for the x86-64 platform the program runs on, with the right number of
\* arguments and a return buffer
RanGenerated ==
    /\ Invoked
    /\ abi \in {"sysv", "win64"}
    /\ last.object = "generated"
    /\ last.num_args = last.sig.num_params
    /\ last.ret = "buffer"

\* the return slot after value has been stored at its start
SlotHolding(value) == [j \in 1..Len(Slot) |-> IF j <= Len(value) THEN value[j] ELSE Slot[j]]

\* C4. Identity law: a trampoline built for an identity target T f(T),
\* invoked with a value v of T, returns and leaves exactly v in the return
\* slot (stated for the two ABIs whose trampolines are executed here).
IdentityLaw ==
    (RanGenerated /\ last.sig \in IdentitySigs)
        => /\ last.out.result = "true"
           /\ last.slot_after = SlotHolding(last.args[1])

(***************************************************************************)
(* Properties of construction.                                              *)
(***************************************************************************)
\* the latest call was create_ffi_function asking for generated code, with
\* malloc and the mapping call succeeding
Generating ==
    /\ last.op = "create"
    /\ last.manual = << >>
    /\ last.heap = "ok"
    /\ last.os = "grants"

\* every parameter type is a supported scalar and the return type is one or Void
SupportedSignature(sig) ==
    /\ sig.param_types # NullArray
    /\ \A i \in 1..sig.num_params : sig.param_types[i] \in ScalarTypes
    /\ sig.return_type \in ScalarTypes \cup {"VOID"}

\* C5. For every signature of supported scalar types, with any number of
\* parameters, create_ffi_function returns an object when the allocations
\* succeed, and the generated code is not longer than trampoline_size.
CreateSucceeds ==
    (Generating /\ SupportedSignature(last.sig))
        => /\ last.out.result = "object"
           /\ last.out.written <= TrampolineSize

\* C6. When the generator reports zero bytes or more than trampoline_size,
\* and when manual bytes exceed trampoline_size, create_ffi_function releases
\* the region exactly once, frees the object, returns NULL and flushes
\* nothing: the caller holds no object and no region or heap object is left.
FailureCleanup ==
    (/\ last.op = "create"
     /\ \/ last.out.reported = 0
        \/ last.out.reported > TrampolineSize
        \/ last.out.allocs = 1 /\ Len(last.manual) > TrampolineSize)
        => /\ last.out.result = "NULL"
           /\ last.out.allocs = 1 /\ last.out.releases = 1
           /\ last.out.mallocs = 1 /\ last.out.frees = 1
           /\ last.out.flushed = << >>
           /\ obj = NoObject
           /\ live = [regions |-> 0, objects |-> 0]

\* the generator reported more bytes than trampoline_size and construction
\* failed with everything given back
FailureCleanupWitness ==
    /\ last.op = "create"
    /\ last.out.reported > TrampolineSize
    /\ last.out.result = "NULL"
    /\ last.out.releases = 1
    /\ live = [regions |-> 0, objects |-> 0]

\* C7. Capacity invariant: construction stores no code byte at or beyond the
\* capacity of the region, and a signature whose code does not fit makes
\* construction fail instead of faulting on the store.
CapacityInvariant ==
    (Generating /\ last.sig.param_types # NullArray)
        => /\ last.out.written <= last.out.capacity
           /\ last.out.result # "crash"

\* a parameter is Void or UNKNOWN, or the return type is UNKNOWN
HasUnencodedType(sig) ==
    \/ sig.return_type = "UNKNOWN"
    \/ /\ sig.param_types # NullArray
       /\ \E i \in 1..sig.num_params : sig.param_types[i] \in {"VOID", "UNKNOWN"}

\* C8. On every ABI a signature with Void or UNKNOWN as a parameter, in a
\* register position or a stack position, or with UNKNOWN as the return
\* type makes the generator return 0, and construction fails.
UnencodedTypeRefused ==
    (Generating /\ HasUnencodedType(last.sig))
        => /\ last.out.reported = 0
           /\ last.out.result = "NULL"

\* C9. When the operating system refuses the executable mapping,
\* create_ffi_function returns NULL with the object freed, and the process
\* goes on running.
AllocationRefusalReturned ==
    (last.op = "create" /\ last.heap = "ok" /\ last.os = "refuses")
        => /\ last.out.result = "NULL"
           /\ last.out.mallocs = last.out.frees
           /\ proc = "running"

(***************************************************************************)
(* Where the arguments are when the target is called.                       *)
(***************************************************************************)
\* the number of argument registers of each class
NumIntArgRegs(a) == CASE a = "sysv" -> 6 [] a = "win64" -> 4 [] a = "aapcs" -> 8
NumFloatArgRegs(a) == CASE a = "sysv" -> 8 [] a = "win64" -> 4 [] a = "aapcs" -> 8

\* how many of the first n parameters have a float type, or an integer type
FloatsBefore(sig, n) == Cardinality({i \in 1..n : IsXmmType(sig.param_types[i])})
IntsBefore(sig, n) == n - FloatsBefore(sig, n)

\* how many of the first n parameters found no register of their class
SpilledBefore(a, sig, n) ==
    (IF IntsBefore(sig, n) > NumIntArgRegs(a) THEN IntsBefore(sig, n) - NumIntArgRegs(a) ELSE 0)
    + (IF FloatsBefore(sig, n) > NumFloatArgRegs(a)
       THEN FloatsBefore(sig, n) - NumFloatArgRegs(a) ELSE 0)

\* the first byte of what the target finds where the rule puts parameter p
\* (counted from 1): the register of its class with the number of earlier
\* parameters of that class, or the next 8-byte stack slot above the
\* return address (and above the 32 bytes of shadow space on Win64)
FirstByteWhereExpected(a, sig, p, at, junk) ==
    IF IsXmmType(sig.param_types[p])
    THEN IF FloatsBefore(sig, p - 1) < NumFloatArgRegs(a)
         THEN at.xmm[FloatsBefore(sig, p - 1)][1]
         ELSE LET slot == at.gpr[RSP].off + (IF a = "win64" THEN 32 ELSE 0)
                          + 8 * SpilledBefore(a, sig, p - 1)
              IN  IF slot \in DOMAIN at.stack THEN ByteAt(at.stack[slot], 1, junk) ELSE junk
    ELSE IF IntsBefore(sig, p - 1) < NumIntArgRegs(a)
         THEN ByteAt(at.gpr[IntArgRegs(a)[IntsBefore(sig, p - 1) + 1]], 1, junk)
         ELSE LET slot == at.gpr[RSP].off + (IF a = "win64" THEN 32 ELSE 0)
                          + 8 * SpilledBefore(a, sig, p - 1)
              IN  IF slot \in DOMAIN at.stack THEN ByteAt(at.stack[slot], 1, junk) ELSE junk

\* C10. Register allocation rule: scanning the parameters left to right, the
\* k-th integer scalar is in the k-th integer argument register while
\* registers remain (6 on SysV, 4 on Win64) and otherwise in the next stack
\* slot, and likewise the k-th float scalar (8 and 4 registers), the two
\* classes counted independently; so the target is called once and finds
\* every argument, which here starts with a byte equal to its position, in
\* that place.
RegisterAllocationRule ==
    (/\ RanGenerated
     /\ last.val = "pattern"
     /\ \A i \in 1..last.sig.num_params : ~IsInt128Type(last.sig.param_types[i])
     /\ ~IsInt128Type(last.sig.return_type))
        => /\ last.out.m.calls = 1
           /\ \A p \in 1..last.sig.num_params :
                 last.sig.param_types[p] = "BOOL"
                 \/ FirstByteWhereExpected(abi, last.sig, p, last.out.m.atcall, last.ub.junk) = p

(***************************************************************************)
(* 128-bit pairs.                                                           *)
(***************************************************************************)
RECURSIVE PairRule(_, _, _)
\* the rule applied to the first n parameters: the integer and float
\* registers used, the stack slots used, and whether an integer-class
\* argument has gone to the stack
PairRule(a, sig, n) ==
    IF n = 0 THEN [ints |-> 0, floats |-> 0, slots |-> 0, spilled |-> FALSE]
    ELSE LET s == PairRule(a, sig, n - 1)
             t == sig.param_types[n]
             need == IF IsInt128Type(t) THEN 2 ELSE 1
         IN  IF IsXmmType(t)
             THEN IF s.floats < NumFloatArgRegs(a)
                  THEN [s EXCEPT !.floats = @ + 1] ELSE [s EXCEPT !.slots = @ + 1]
             ELSE IF ~s.spilled /\ s.ints + need <= NumIntArgRegs(a)
                  THEN [s EXCEPT !.ints = @ + need]
                  ELSE [s EXCEPT !.slots = @ + need, !.spilled = TRUE]

\* the counters of the generator's marshalling loop before parameter p
\* (counted from 1) on SysV and AAPCS64
MarshalledBefore(a, sig, p) ==
    IF a = "sysv" THEN SysvMarshalLoop(sig, 0, p - 1, MarshalStart(<< >>, 0))
    ELSE Arm64MarshalLoop(sig, 0, p - 1, MarshalStart(<< >>, 0))

\* the generator's loop gives integer-class parameter p the registers or
\* the stack slots the rule gives it
PlacedByRule(a, sig, p) ==
    LET s == PairRule(a, sig, p - 1)
        g == MarshalledBefore(a, sig, p)
        h == MarshalledBefore(a, sig, p + 1)
        need == IF IsInt128Type(sig.param_types[p]) THEN 2 ELSE 1
    IN  IF ~s.spilled /\ s.ints + need <= NumIntArgRegs(a)
        THEN /\ g.gp_reg_idx = s.ints
             /\ h.gp_reg_idx = g.gp_reg_idx + need
             /\ h.stack_arg_current_idx = g.stack_arg_current_idx
        ELSE /\ g.stack_arg_current_idx = s.slots
             /\ h.stack_arg_current_idx = g.stack_arg_current_idx + need
             /\ h.gp_reg_idx = g.gp_reg_idx

\* the first byte of the 8 bytes the target finds in integer register
\* number k (from 0) of the convention, or in stack slot k above the return
\* address
FirstByteInReg(a, at, k, junk) == ByteAt(at.gpr[IntArgRegs(a)[k + 1]], 1, junk)
FirstByteInSlot(at, k, junk) ==
    LET slot == at.gpr[RSP].off + 8 * k
    IN  IF slot \in DOMAIN at.stack THEN ByteAt(at.stack[slot], 1, junk) ELSE junk

\* the target finds integer-class parameter p where the rule puts it: its
\* low 8 bytes start with p, the high 8 bytes of a pair with 128 + 9
FoundByRule(a, sig, p, at, junk) ==
    LET s == PairRule(a, sig, p - 1)
        pair == IsInt128Type(sig.param_types[p])
        need == IF pair THEN 2 ELSE 1
    IN  IF ~s.spilled /\ s.ints + need <= NumIntArgRegs(a)
        THEN /\ FirstByteInReg(a, at, s.ints, junk) = p
             /\ pair => FirstByteInReg(a, at, s.ints + 1, junk) = 137
        ELSE /\ FirstByteInSlot(at, s.slots, junk) = p
             /\ pair => FirstByteInSlot(at, s.slots + 1, junk) = 137

\* a signature with a 128-bit integer among its parameters
HasPair(sig) ==
    /\ sig.param_types # NullArray
    /\ \E i \in 1..sig.num_params : IsInt128Type(sig.param_types[i])

\* C11. 128-bit pair rule without backfill: on SysV and AAPCS64 a 128-bit
\* integer parameter takes two adjacent integer registers if two remain and
\* otherwise two stack slots, and once an integer-class argument has gone to
\* the stack every later integer-class argument goes to the stack too.  The
\* generator's loop decides so for every signature it accepts, and the SysV
\* target finds every integer-class argument of a signature with a pair in
\* the place the rule names.
PairRuleWithoutBackfill ==
    /\ (Generating /\ abi \in {"sysv", "aapcs"} /\ last.out.result = "object")
          => \A p \in 1..last.sig.num_params :
                IsXmmType(last.sig.param_types[p]) \/ PlacedByRule(abi, last.sig, p)
    /\ (RanGenerated /\ abi = "sysv" /\ HasPair(last.sig) /\ last.val = "pattern")
          => /\ last.out.m.calls = 1
             /\ \A p \in 1..last.sig.num_params :
                   IsXmmType(last.sig.param_types[p])
                   \/ FoundByRule(abi, last.sig, p, last.out.m.atcall, last.ub.junk)

(***************************************************************************)
(* The stack pointer at the call.  The machine counts stack addresses from  *)
(* the stack pointer at entry, which a C caller leaves 8 above a multiple   *)
(* of 16: an address off is a multiple of 16 exactly when off + 8 is.       *)
(***************************************************************************)
\* the latest call ran a generated trampoline of ABI a as far as its call
CalledOn(a) == RanGenerated /\ abi = a /\ last.out.m.calls > 0

\* RSP at the indirect call is a multiple of 16
RspAlignedAtCall == (last.out.m.atcall.gpr[RSP].off + 8) % 16 = 0

Win64StackAligned == CalledOn("win64") => RspAlignedAtCall

(***************************************************************************)
(* The Win64 stack frame at the call.                                       *)
(***************************************************************************)
\* the counters of the Win64 marshalling loop after the first n parameters
Win64MarshalledAfter(sig, n) ==
    LET gp0 == IF Win64ReturnStructByPointer(sig) THEN 1 ELSE 0 IN
    Win64MarshalLoop(sig, 0, n, MarshalStart(<< >>, gp0),
                     Win64SizingPass(sig, 0, sig.num_params, SizingStart(gp0)).num_gp_regs_used)

\* the number of stack slots the Win64 loop has given out before parameter p
\* (counted from 1), and whether it gives p one
Win64SlotsBefore(sig, p) == Win64MarshalledAfter(sig, p - 1).stack_arg_current_idx
Win64Spills(sig, p) ==
    Win64MarshalledAfter(sig, p).stack_arg_current_idx > Win64SlotsBefore(sig, p)

\* the bytes between RSP at the call and the three registers the prologue pushed
ReservedAtCall == (0 - 24) - last.out.m.atcall.gpr[RSP].off

\* C14. Win64 shadow space: the trampoline of every signature, also one
\* without parameters, has at least 32 bytes reserved at the call; it has
\* stored nothing between RSP and RSP+32; and the k-th 8-byte slot it gave
\* to a spilled argument is at RSP+32+8k, where the target finds that
\* argument (here by its first byte, which is its position).
Win64ShadowSpace ==
    (CalledOn("win64") /\ last.val = "pattern")
        => LET at == last.out.m.atcall
               rsp == at.gpr[RSP].off
           IN  /\ ReservedAtCall >= 32
               /\ \A off \in DOMAIN at.stack : off >= 0 - 24 \/ off >= rsp + 32
               /\ \A p \in 1..last.sig.num_params :
                     (Win64Spills(last.sig, p) /\ last.sig.param_types[p] # "BOOL")
                        => FirstByteInSlot(at, 4 + Win64SlotsBefore(last.sig, p),
                                           last.ub.junk) = p

\* the first byte of what the Win64 target finds where position p (counted
\* from 1) of a signature puts a parameter of type t: integer register p or
\* XMM register p - 1 for the first four positions, then the stack slot
\* above the shadow space that belongs to the position
FirstByteAtPosition(t, p, at, junk) ==
    IF p > 4 THEN FirstByteInSlot(at, p - 1, junk)
    ELSE IF IsXmmType(t) THEN at.xmm[p - 1][1]
    ELSE FirstByteInReg("win64", at, p - 1, junk)

\* XMM register x holds what it held when the trampoline was entered
XmmUntouched(at, x) ==
    at.xmm[x] = Entry(Env(abi, last.sig, last.args,
                          ActualReturnBuffer(ReturnValueOut(last.ret)), last.ub)).xmm[x]

\* C15. Win64 positional assignment: the parameter at position p (0..3) is in
\* the p-th of RCX, RDX, R8, R9 if it is integer-class and in XMMp if it is
\* float-class, every parameter at position 4 or later is on the stack, and
\* no XMM register of a position that holds no float is loaded (stated for
\* signatures of scalars with at most 16 parameters).
Win64Positional ==
    (/\ CalledOn("win64") /\ last.val = "pattern"
     /\ ~HasPair(last.sig) /\ ~IsInt128Type(last.sig.return_type)
     /\ last.sig.num_params <= 16)
        => LET at == last.out.m.atcall IN
           /\ \A p \in 1..last.sig.num_params :
                 last.sig.param_types[p] = "BOOL"
                 \/ FirstByteAtPosition(last.sig.param_types[p], p, at, last.ub.junk) = p
           /\ \A x \in 0..3 :
                 (x + 1 > last.sig.num_params \/ ~IsXmmType(last.sig.param_types[x + 1]))
                    => XmmUntouched(at, x)

(***************************************************************************)
(* A 128-bit result on Win64.                                               *)
(***************************************************************************)
\* the instructions of a buffer from the first call on, the call included
FromCall(insns) ==
    LET calls == {k \in 1..Len(insns) : insns[k].op = "call"}
    IN  IF calls = {} THEN << >>
        ELSE SubSeq(insns, CHOOSE k \in calls : \A j \in calls : k <= j, Len(insns))

\* the Win64 sizing pass and marshalling loop end with the same counts of
\* integer registers and stack slots
Win64PassesAgree(sig) ==
    LET gp0 == IF Win64ReturnStructByPointer(sig) THEN 1 ELSE 0
        c == Win64SizingPass(sig, 0, sig.num_params, SizingStart(gp0))
        m == Win64MarshalledAfter(sig, sig.num_params)
    IN  /\ c.num_gp_regs_used = m.gp_reg_idx
        /\ c.num_stack_args = m.stack_arg_current_idx

\* C16. Win64 128-bit return: the trampoline of a signature that returns
\* INT128 or UINT128 calls its target with the caller's return-slot pointer
\* in RCX and with the k-th integer-class parameter (from 0) one register
\* later than without the pointer, the first in RDX, or on the stack when
\* RDX, R8 and R9 are taken; it emits no store after the call; and its
\* sizing pass and marshalling loop end with the same counts.
Win64PairReturn ==
    (/\ CalledOn("win64") /\ last.val = "pattern"
     /\ IsInt128Type(last.sig.return_type))
        => LET at == last.out.m.atcall
               sig == last.sig
           IN  /\ at.gpr[RCX] = PtrVal("ret", 0, 0)
               /\ \A p \in 1..sig.num_params :
                     (~IsXmmType(sig.param_types[p]) /\ ~IsInt128Type(sig.param_types[p]))
                        => IF IntsBefore(sig, p - 1) + 1 < 4
                           THEN FirstByteInReg(abi, at, IntsBefore(sig, p - 1) + 1,
                                               last.ub.junk) = p
                           ELSE Win64Spills(sig, p)
               /\ \A k \in 2..Len(FromCall(Disassemble(obj.code, 0))) :
                     FromCall(Disassemble(obj.code, 0))[k].op \notin {"store", "xmmstore"}
               /\ Win64PassesAgree(sig)

(***************************************************************************)
(* The order of the emitted instructions.                                   *)
(***************************************************************************)
\* the latest call returned a generated trampoline, which obj holds
Published == Generating /\ last.out.result = "object" /\ obj.live

\* the callee-saved registers in which a trampoline keeps args and the
\* return buffer pointer
ArgsBase(a) == IF a = "sysv" THEN R14 ELSE R13
RetBase(a) == IF a = "sysv" THEN R12 ELSE R14

\* the places in an x86-64 instruction sequence of the loads of
\* args[i].value_ptr, of the calls, of the stores through the return buffer
\* pointer, and of the pops of the epilogue
PtrLoadsAt(a, insns) ==
    {k \in 1..Len(insns) :
        insns[k].op = "load" /\ insns[k].mod # MOD_REGISTER /\ insns[k].rm = ArgsBase(a)}
CallsAt(insns) == {k \in 1..Len(insns) : insns[k].op = "call"}
RetStoresAt(a, insns) ==
    {k \in 1..Len(insns) :
        insns[k].op \in {"store", "xmmstore"} /\ insns[k].mod # MOD_REGISTER
        /\ insns[k].rm = RetBase(a)}
PopsAt(insns) == {k \in 1..Len(insns) : insns[k].op = "pop"}

\* whether the trampoline of a signature has to store a result itself
StoresResult(a, sig) ==
    sig.return_type # "VOID" /\ ~(a = "win64" /\ IsInt128Type(sig.return_type))

\* loads in declaration order, then one call, then the return store, then
\* the epilogue and, last, the return.  The places are those of one sequence
\* of length len; offsets[k] is the argument index that the offset field of
\* the load at place k encodes, a field that holds indexes below wrap
InOrder(sig, len, loads, offsets, wrap, calls, stores, pops, retAt, needsStore) ==
    /\ Cardinality(loads) = sig.num_params
    /\ \A k \in loads : offsets[k] = Cardinality({j \in loads : j < k}) % wrap
    /\ Cardinality(calls) = 1
    /\ \A c \in calls :
          /\ \A k \in loads : k < c
          /\ \A k \in stores \cup pops : c < k
    /\ needsStore => stores # {}
    /\ \A k \in stores : (\A q \in pops : k < q) /\ k < retAt
    /\ retAt = len

\* the order in a sequence of decoded x86-64 instructions, whose loads of
\* args[i].value_ptr have the 8-bit displacement 8 * i
X86InOrder(a, sig, insns) ==
    InOrder(sig, Len(insns), PtrLoadsAt(a, insns),
            [k \in 1..Len(insns) |-> (insns[k].disp % 256) \div SizeofFFIArgument],
            256 \div SizeofFFIArgument,
            CallsAt(insns), RetStoresAt(a, insns), PopsAt(insns),
            IF insns[Len(insns)].op = "ret" THEN Len(insns) ELSE 0,
            StoresResult(a, sig))

\* the 32-bit words of an AAPCS64 trampoline, each as its four bytes in
\* memory order
Arm64Words(code) == [k \in 1..(Len(code) \div 4) |-> SubSeq(code, 4 * k - 3, 4 * k)]

\* the base register field (bits 5..9) and the 12-bit offset field
\* (bits 10..21) of a load or store word
Arm64Rn(w) == ((w[1] + 256 * w[2]) \div 32) % 32
Arm64Imm12(w) == (w[2] \div 4) + 64 * (w[3] % 64)

\* w is "LDR X8, [X19, #offset]" as ARM64_LDR_X_X_IMM builds it
IsArm64PtrLoad(w) ==
    w = ARM64_LDR_X_X_IMM(ARM64_REG_X8, ARM64_REG_X19, Arm64Imm12(w))

\* the order in the words of an AAPCS64 trampoline: the loads of
\* args[i].value_ptr through X19, BLR X16, the words that address memory
\* through X20 (the return buffer pointer), the two LDP of the epilogue, RET
Arm64InOrder(sig, words) ==
    InOrder(sig, Len(words),
            {k \in 1..Len(words) : IsArm64PtrLoad(words[k])},
            [k \in 1..Len(words) |-> Arm64Imm12(words[k]) \div SizeofFFIArgument],
            4096 \div SizeofFFIArgument,
            {k \in 1..Len(words) : words[k] = ARM64_BLR(ARM64_REG_X16)},
            {k \in 1..Len(words) : k > 5 /\ Arm64Rn(words[k]) = ARM64_REG_X20},
            {k \in 1..Len(words) :
                words[k] \in {A64(43201, 20467, 0), A64(43201, 31741, 0)}},
            IF words[Len(words)] = ARM64_RET THEN Len(words) ELSE 0,
            StoresResult("aapcs", sig))

\* C17. Ordering inside one invocation: in the instruction sequence every
\* generator emits, the loads of parameters 0..n-1 come in declaration
\* order, the one call of the target comes after the last load, the store
\* to the return slot after the call, and the epilogue and the return after
\* that store.
EmittedInOrder ==
    Published =>
        IF abi = "aapcs" THEN Arm64InOrder(last.sig, Arm64Words(obj.code))
        ELSE X86InOrder(abi, last.sig, Disassemble(obj.code, 0))

\* a SysV trampoline with more parameters than registers and a result to
\* store was published
EmittedInOrderWitness ==
    /\ Published
    /\ abi = "sysv"
    /\ last.sig.num_params > 6
    /\ last.sig.return_type # "VOID"
    /\ X86InOrder(abi, last.sig, Disassemble(obj.code, 0))

(***************************************************************************)
(* A caller that invokes one object several times in a row, as              *)
(* test_reentrancy_add_two_ints does: a fresh FFI_Argument array for every  *)
(* call, and the same storage for every result, never cleared in between.   *)
(***************************************************************************)
\* the signatures such a caller declares
RepeatSigs == IdentitySigs \cup PairReturnSigs \cup BasicSigs

\* the most invocations it makes
MaxCalls == 3

RepeatInit == Init /\ want \in RepeatSigs

\* success = invoke_foreign_function(obj, args, n, &g_ffi_return_value),
\* g_ret_storage holding what the calls before left in it
InvokeAgain ==
    /\ proc = "running"
    /\ obj.live
    /\ ncalls < MaxCalls
    /\ \E v \in {"pattern", "zero", "ones"} : \E u \in UBs :
       \E h \in IF abi = "aapcs" THEN {"kept", "stored", "fault"} ELSE {"kept"} :
          LET n == obj.sig.num_params
              args == Args(abi, obj.sig, n, v)
              r == invoke_foreign_function(abi, obj, args, n,
                                           ReturnArgument(Buffer(g_ret_storage)), u, h)
          IN  /\ last' = [op |-> "invoke", object |-> obj.debug_name, sig |-> obj.sig,
                          trampoline_code |-> obj.trampoline_code,
                          num_args |-> n, ret |-> "buffer", val |-> v,
                          args |-> args, ub |-> u,
                          slot_before |-> g_ret_storage, slot_after |-> r.m.ret,
                          out |-> r]
              /\ proc' = IF r.result = "crash" THEN "crashed" ELSE proc
              /\ g_ret_storage' = r.m.ret
    /\ ncalls' = ncalls + 1
    /\ UNCHANGED << abi, want, obj, live, thread_vars, creating >>

RepeatNext == Create \/ InvokeAgain \/ Destroy

RepeatSpec == RepeatInit /\ [][RepeatNext]_vars

\* f(v): what the target returns for the arguments of a call
PureResult(a, sig, args) ==
    IF sig.func_ptr = IdentityTarget THEN args[1]
    ELSE [j \in 1..Width(a, sig.return_type) |-> ConstByte]

\* the storage after value has been stored at its start
Stored(before, value) ==
    [j \in 1..Len(before) |-> IF j <= Len(value) THEN value[j] ELSE before[j]]

\* the latest of several invocations left f(v) for its own v in the storage
YieldsOwnResult ==
    (RanGenerated /\ ncalls > 0)
        => /\ last.out.result = "true"
           /\ g_ret_storage = Stored(last.slot_before, PureResult(abi, last.sig, last.args))
           /\ ~last.out.m.clobbered

\* C18. Sequential re-entrancy: invoking one trampoline object N times in
\* succession with inputs v1..vN yields f(v1)..f(vN); an invocation changes
\* neither the fields of the signature object nor the bytes of its code, so
\* no result depends on an earlier invocation (results stated for the two
\* ABIs whose trampolines are executed here).
SequentialReentrancy ==
    /\ []YieldsOwnResult
    /\ [][last'.op = "invoke" => obj' = obj]_vars

(***************************************************************************)
(* Several threads that invoke one published object at the same time.  Each *)
(* thread has its own FFI_Argument array, its own values and its own 16     *)
(* bytes for the result; the object, its code and the state of the          *)
(* diagnostics are shared.  A thread is idle, then inside                   *)
(* invoke_foreign_function before the call of the trampoline ("gateway"),   *)
(* inside the trampoline before the call of the target ("marshal"), inside  *)
(* the target ("target"), inside the trampoline after the target has        *)
(* returned ("store"), and back in its caller ("done").  The lines note and *)
(* diag print go to the output streams and are no part of this memory.      *)
(***************************************************************************)
\* the number of threads
NumThreads == 2

Threads == 1..NumThreads

\* the signatures of the objects the threads share
ThreadSigs == IdentitySigs \cup PairReturnSigs \cup BasicSigs

\* create_ffi_function for generated code with the allocations succeeding
PublishedFor(a, sig) ==
    create_ffi_function(a, "generated", sig, << >>, "ok", "grants", "fault")

\* a thread that has not called yet; a store through a pointer that is not
\* its own faults
IdleThread ==
    [pc |-> "idle", val |-> "none", args |-> << >>,
     ub |-> CHOOSE u \in UBs : u.wild = "fault",
     storage |-> Slot, result |-> "none", m |-> << >>]

\* the main thread has published an object for want and nothing else has
\* happened; the diag that opens create_ffi_function has initialised the
\* diagnostics (cross.c:2094 and 3493)
ThreadInit ==
    /\ abi \in ABIs
    /\ want \in ThreadSigs
    /\ PublishedFor(abi, want).result = "object"
    /\ proc = "running"
    /\ obj = PublishedFor(abi, want).object
    /\ live = [regions |-> 1, objects |-> 1]
    /\ last = [op |-> "none"]
    /\ g_ret_storage = Slot
    /\ ncalls = 0
    /\ threads = [t \in Threads |-> IdleThread]
    /\ double_tap_ctx = [initialized |-> TRUE]
    /\ written = {}
    /\ creating = NotCreating

\* a piece of memory that thread by has written; owner is the thread it
\* belongs to, or "shared"
Write(by, owner, what) == [by |-> by, owner |-> owner, what |-> what]

\* thread t fills its argument array and calls invoke_foreign_function
Begin(t) ==
    /\ proc = "running"
    /\ threads[t].pc = "idle"
    /\ \E v \in {"pattern", "zero", "ones"} :
          threads' = [threads EXCEPT ![t] =
                         [@ EXCEPT !.pc = "gateway", !.val = v,
                                   !.args = Args(abi, obj.sig, obj.sig.num_params, v)]]
    /\ UNCHANGED << abi, want, proc, obj, live, last, g_ret_storage, ncalls,
                    double_tap_ctx, written, creating >>

\* __double_tap_init_context, which every note and diag calls first: it
\* writes the shared context when nobody has initialised it
InitContext(t) ==
    /\ double_tap_ctx' = [initialized |-> TRUE]
    /\ written' = IF double_tap_ctx.initialized THEN written
                  ELSE written \cup {Write(t, "shared", "double_tap_ctx")}

\* invoke_foreign_function down to the call of the trampoline: the notes
\* and the checks, on the object as it is now
Gateway(t) ==
    /\ proc = "running"
    /\ threads[t].pc = "gateway"
    /\ InitContext(t)
    /\ LET me == threads[t]
           n == Len(me.args)
           refused == \/ ArityMismatch(obj.sig, n)
                      \/ ValuePtrMissing(obj.sig, ReturnArgument(Buffer(me.storage)))
                      \/ TrampolineMissing(obj)
                      \/ ReturnBufferMissing(obj.sig, Buffer(me.storage))
       IN  threads' = [threads EXCEPT ![t] =
                          IF refused THEN [@ EXCEPT !.pc = "done", !.result = "false"]
                          ELSE [@ EXCEPT !.pc = "marshal"]]
    /\ UNCHANGED << abi, want, proc, obj, live, last, g_ret_storage, ncalls, creating >>

\* the machine thread t leaves when the code of the object, as it is now,
\* runs on its arguments and its storage
ThreadRun(t, h) ==
    LET me == threads[t] IN
    EnterTrampoline(obj, Env(abi, obj.sig, me.args, Buffer(me.storage), me.ub), h)

\* the trampoline from its first instruction to the call of the target: it
\* writes the stack of thread t
Marshal(t) ==
    /\ proc = "running"
    /\ threads[t].pc = "marshal"
    /\ \E h \in IF abi = "aapcs" THEN {"kept", "stored", "fault"} ELSE {"kept"} :
          LET m == ThreadRun(t, h)
              reached == m.calls > 0
          IN  /\ threads' = [threads EXCEPT ![t] =
                                [@ EXCEPT !.pc = IF reached THEN "target" ELSE "done",
                                          !.result = IF reached THEN @ ELSE "crash",
                                          !.m = m]]
              /\ proc' = IF reached THEN proc ELSE "crashed"
              /\ written' = written \cup {Write(t, t, "stack")}
    /\ UNCHANGED << abi, want, obj, live, last, g_ret_storage, ncalls, double_tap_ctx,
                    creating >>

\* the target runs and returns: a pure function, which writes only where
\* its convention has it write a result that does not fit the registers
Target(t) ==
    /\ proc = "running"
    /\ threads[t].pc = "target"
    /\ threads' = [threads EXCEPT ![t] = [@ EXCEPT !.pc = "store"]]
    /\ written' = written \cup
                      (IF threads[t].m.clobbered THEN {Write(t, t, "args")} ELSE {})
    /\ UNCHANGED << abi, want, proc, obj, live, last, g_ret_storage, ncalls,
                    double_tap_ctx, creating >>

\* the trampoline from the return of the target to its own return, and
\* "return true" in invoke_foreign_function
Store(t) ==
    /\ proc = "running"
    /\ threads[t].pc = "store"
    /\ LET m == threads[t].m IN
       /\ threads' = [threads EXCEPT ![t] =
                         [@ EXCEPT !.pc = "done", !.storage = m.ret,
                                   !.result = IF m.status = "returned" THEN "true"
                                              ELSE "crash"]]
       /\ proc' = IF m.status = "returned" THEN proc ELSE "crashed"
       /\ written' = written
                        \cup (IF m.retwrites > 0 THEN {Write(t, t, "storage")} ELSE {})
                        \cup (IF m.status = "fault" /\ m.why = "wild store"
                              THEN {Write(t, "shared", "anywhere")} ELSE {})
    /\ UNCHANGED << abi, want, obj, live, last, g_ret_storage, ncalls, double_tap_ctx,
                    creating >>

ThreadNext == \E t \in Threads : Begin(t) \/ Gateway(t) \/ Marshal(t) \/ Target(t) \/ Store(t)

ThreadSpec == ThreadInit /\ [][ThreadNext]_vars

\* thread t is back from a call of an executed trampoline
ThreadDone(t) == abi \in {"sysv", "win64"} /\ threads[t].pc = "done"

\* C19. Concurrent invocation: when K threads invoke the same published
\* trampoline at the same time, each with its own argument storage and its
\* own return slot and a pure target, then under every interleaving each
\* thread's return slot receives the result for that thread's own
\* arguments; the invocation path writes no memory shared between the
\* threads, and every piece it writes belongs to the thread that writes it
\* (results stated for the two ABIs whose trampolines are executed here).
ConcurrentInvocation ==
    /\ \A t \in Threads :
          ThreadDone(t)
              => /\ threads[t].result = "true"
                 /\ threads[t].storage = SlotHolding(PureResult(abi, obj.sig, threads[t].args))
    /\ \A w \in written : w.owner = w.by
    /\ obj = PublishedFor(abi, want).object

(***************************************************************************)
(* create_ffi_function followed statement by statement (cross.c:2089-2187): *)
(* malloc, the mapping of the region, the bytes copied or generated into    *)
(* it, the flush, and the return that hands the object to the caller.  The  *)
(* caller is inside the call until it returns and can invoke and destroy    *)
(* only what a call has returned to it.                                     *)
(***************************************************************************)
\* the signatures this caller declares
PublishSigs == BasicSigs \cup IdentitySigs \cup LongSigs

PublishInit == Init /\ want \in PublishSigs

\* what the call under way returns in the end
CreateOutcome(in) ==
    create_ffi_function(abi, IF in.manual = << >> THEN "generated" ELSE "manual",
                        want, in.manual, in.heap, in.os, in.beyond)

\* the call returns r to the caller
CreateLeaves(in, r) ==
    /\ CreateReturns(in, r)
    /\ creating' = [creating EXCEPT !.pc = "idle"]

\* the call goes on to its next statement
CreateGoesOn(c) ==
    /\ creating' = c
    /\ UNCHANGED << obj, proc, live, last >>

\* the call, its diag and malloc(sizeof(FFI_FunctionSignature))
BeginCreate ==
    /\ proc = "running"
    /\ ~obj.live
    /\ creating.pc = "idle"
    /\ \E in \in CreateInputs(want) :
          LET r == CreateOutcome(in) IN
          IF r.mallocs = 0
          THEN /\ CreateReturns(in, r)
               /\ creating' = NotCreating
          ELSE CreateGoesOn([pc |-> "allocated", in |-> in,
                             region |-> << >>, flushed |-> << >>])
    /\ UNCHANGED << abi, want, g_ret_storage, ncalls, thread_vars >>

\* the fields, and ffi_create_executable_memory(trampoline_size)
MapRegion ==
    /\ proc = "running"
    /\ creating.pc = "allocated"
    /\ LET r == CreateOutcome(creating.in) IN
       IF r.allocs = 0 THEN CreateLeaves(creating.in, r)
       ELSE CreateGoesOn([creating EXCEPT !.pc = "mapped"])
    /\ UNCHANGED << abi, want, g_ret_storage, ncalls, thread_vars >>

\* memcpy of the manual bytes, or generate_generic_trampoline, and the
\* checks of the size on either path
WriteCode ==
    /\ proc = "running"
    /\ creating.pc = "mapped"
    /\ LET r == CreateOutcome(creating.in) IN
       IF r.result # "object" THEN CreateLeaves(creating.in, r)
       ELSE CreateGoesOn([creating EXCEPT !.pc = "written", !.region = r.object.code])
    /\ UNCHANGED << abi, want, g_ret_storage, ncalls, thread_vars >>

\* ffi_flush_instruction_cache(trampoline_code, actual_code_size): the range
\* and the bytes the region holds in that range as the flush runs
FlushCode ==
    /\ proc = "running"
    /\ creating.pc = "written"
    /\ LET r == CreateOutcome(creating.in) IN
       CreateGoesOn([creating EXCEPT
           !.pc = "flushed",
           !.flushed = [k \in DOMAIN r.flushed |->
                           [addr |-> r.flushed[k].addr, len |-> r.flushed[k].len,
                            bytes |-> SubSeq(creating.region, 1, r.flushed[k].len)]]])
    /\ UNCHANGED << abi, want, g_ret_storage, ncalls, thread_vars >>

\* the diag lines that print the bytes, and "return new_ffi_func"
ReturnObject ==
    /\ proc = "running"
    /\ creating.pc = "flushed"
    /\ CreateLeaves(creating.in, CreateOutcome(creating.in))
    /\ UNCHANGED << abi, want, g_ret_storage, ncalls, thread_vars >>

\* the caller, back from create_ffi_function, invokes
InvokeReturned == creating.pc = "idle" /\ Invoke

\* the caller, back from create_ffi_function, destroys
DestroyReturned == creating.pc = "idle" /\ Destroy

PublishNext ==
    \/ BeginCreate
    \/ MapRegion
    \/ WriteCode
    \/ FlushCode
    \/ ReturnObject
    \/ InvokeReturned
    \/ DestroyReturned

PublishSpec == PublishInit /\ [][PublishNext]_vars

\* the one flush a published object needs: its region from the base, as
\* long as the code, run when the region held all of the code
FlushOf(o) == << [addr |-> o.trampoline_code, len |-> Len(o.code), bytes |-> o.code] >>

\* C20. Publication order: on every successful construction path (generated
\* code or manual bytes) the instruction-cache flush over [base, base + bytes
\* written) happens after the last code byte is written and before
\* create_ffi_function returns the object, so no invocation of a trampoline
\* can precede its flush.
PublicationOrder ==
    /\ creating.pc = "flushed" => /\ Len(creating.flushed) = 1
                                  /\ creating.flushed[1].len = Len(creating.region)
                                  /\ creating.flushed[1].bytes = creating.region
    /\ obj.live => /\ creating.flushed = FlushOf(obj)
                   /\ creating.region = obj.code
    /\ (Invoked /\ last.out.entered > 0) => /\ obj.live
                                            /\ creating.flushed = FlushOf(obj)

\* a trampoline that create_ffi_function generated, flushed and returned
\* has been entered
PublicationOrderWitness ==
    /\ Invoked
    /\ last.out.entered = 1
    /\ last.object = "generated"
    /\ creating.flushed = FlushOf(obj)
    /\ Len(obj.code) > 1

(***************************************************************************)
(* Properties of the lifecycle.                                             *)
(***************************************************************************)
\* the allocation create_ffi_function obtained for an object of this build:
\* its base, and its length as the release call names it
AllocatedRange(a) ==
    LET r == ffi_create_executable_memory(a, TrampolineSize, "grants")
    IN  << [addr |-> r.mem, len |-> IF a = "win64" THEN 0 ELSE r.capacity] >>

\* C21. Lifecycle: destroy_ffi_function releases the executable region
\* exactly once, with the base pointer and size that create_ffi_function
\* allocated, clears the invoker handle and frees the object, and
\* destroy_ffi_function(NULL) does nothing; over any sequence of create,
\* invoke and destroy in which each object is destroyed once, the number of
\* live executable regions always equals the number of live trampoline
\* objects (while the process runs).
Lifecycle ==
    /\ (last.op = "destroy" /\ last.given)
          => /\ last.releases = 1
             /\ last.released = AllocatedRange(abi)
             /\ last.frees = 1
             /\ last.trampoline_code = NULL
             /\ ~obj.live
    /\ (last.op = "destroy" /\ ~last.given)
          => /\ last.releases = 0
             /\ last.released = << >>
             /\ last.frees = 0
    /\ proc = "running"
          => /\ live.regions = live.objects
             /\ live.objects = IF obj.live THEN 1 ELSE 0

\* an object that create_ffi_function returned has been destroyed, and the
\* process holds nothing
LifecycleWitness ==
    /\ last.op = "destroy"
    /\ last.given
    /\ last.released = AllocatedRange(abi)
    /\ live = [regions |-> 0, objects |-> 0]
    /\ proc = "running"

\* C22. The dispatcher does not inspect argument pointees: between entry to
\* invoke_foreign_function and the transfer of control to the trampoline,
\* no memory reachable through args[i].value_ptr is read by the dispatcher
\* itself, for any i and any parameter type.
DispatcherReadsNoPointee == Invoked => last.out.peeked = {}

(***************************************************************************)
(* Properties of the widths a trampoline stores and loads with.  The words  *)
(* of an AAPCS64 trampoline are read as the A64 encoding of loads and       *)
(* stores defines them: bits 31:30 size, 29:27 = 111, 26 V, 25:24 the form   *)
(* (00 with bit 21 clear and bits 11:10 clear: a 9-bit signed byte offset;  *)
(* 01: a 12-bit offset scaled by the width), 23:22 opc (00 store, 01 load;  *)
(* 10 and 11 are the sign-extending loads of a general register and the    *)
(* 128-bit store and load of a vector register of size 00).                 *)
(***************************************************************************)
\* what the processor does with word w when it is a load or store whose
\* base is register rn; kind is "store", "load", "undefined" (the word is
\* in the load/store group and encodes no instruction) or "other"
Arm64Access(w, rn) ==
    LET size == w[4] \div 64
        group == (w[4] \div 8) % 8 = 7
        form == w[4] % 4
        opc == w[3] \div 64
        bit21 == (w[3] \div 32) % 2
        imm9 == (w[3] % 32) * 16 + (w[2] \div 16)
        low == (w[2] \div 4) % 4
        vector == (w[4] \div 4) % 2 = 1
        width == IF opc >= 2 /\ vector THEN 16 ELSE Shl(1, size)
        none == [kind |-> "other", off |-> 0, width |-> 0]
        undefined == [kind |-> "undefined", off |-> 0, width |-> 0]
        kind == CASE opc = 0 -> "store"
                  [] opc = 1 -> "load"
                  [] vector -> IF size # 0 THEN "undefined"
                               ELSE IF opc = 2 THEN "store" ELSE "load"
                  [] opc = 2 -> IF size < 3 THEN "load" ELSE "other"
                  [] OTHER -> IF size < 2 THEN "load" ELSE "undefined"
    IN  IF ~group \/ Arm64Rn(w) # rn \/ form >= 2 THEN none
        ELSE IF kind = "undefined" THEN undefined
        ELSE IF kind = "other" THEN none
        ELSE IF form = 1
        THEN [kind |-> kind, off |-> Arm64Imm12(w) * width, width |-> width]
        ELSE IF bit21 = 0 /\ low = 0
        THEN [kind |-> kind, off |-> IF imm9 >= 256 THEN imm9 - 512 ELSE imm9,
              width |-> width]
        ELSE IF bit21 = 1 /\ low # 2 /\ (w[4] \div 4) % 2 = 1
        THEN [kind |-> "undefined", off |-> 0, width |-> 0]
        ELSE none

\* the words from the one after BLR X16 on
Arm64AfterCall(words) ==
    LET blr == {k \in 1..Len(words) : words[k] = ARM64_BLR(ARM64_REG_X16)}
    IN  IF blr = {} THEN << >>
        ELSE SubSeq(words, (CHOOSE k \in blr : TRUE) + 1, Len(words))

\* the offsets in the return slot that the words after the call store to
Arm64StoredBytes(words) ==
    UNION {LET a == Arm64Access(Arm64AfterCall(words)[k], ARM64_REG_X20)
           IN  IF a.kind = "store" THEN a.off..(a.off + a.width - 1) ELSE {} :
           k \in 1..Len(Arm64AfterCall(words))}

\* no word after the call is an undefined load or store through X20
Arm64StoresDefined(words) ==
    \A k \in 1..Len(Arm64AfterCall(words)) :
        Arm64Access(Arm64AfterCall(words)[k], ARM64_REG_X20).kind # "undefined"

\* the bytes of the return slot a call changed, counted from 0
ChangedBytes(before, after) == {j - 1 : j \in {i \in 1..Len(before) : after[i] # before[i]}}

\* C23. Return store width: on every ABI and for every non-Void return
\* type, the trampoline writes to the return slot exactly as many bytes as
\* that type's width on that platform, and leaves every byte of the slot
\* beyond that width unchanged.
ReturnStoreWidth ==
    /\ (RanGenerated /\ last.out.result = "true" /\ last.sig.return_type # "VOID")
          => ChangedBytes(last.slot_before, last.slot_after)
                = 0..(Width(abi, last.sig.return_type) - 1)
    /\ (Published /\ abi = "aapcs" /\ last.sig.return_type # "VOID")
          => /\ Arm64StoresDefined(Arm64Words(obj.code))
             /\ Arm64StoredBytes(Arm64Words(obj.code))
                   = 0..(Width(abi, last.sig.return_type) - 1)

(***************************************************************************)
(* The loads of the arguments.  Every generator loads args[i].value_ptr     *)
(* into a scratch register (R10 on x86-64, X8 on ARM64) and then reads the  *)
(* argument through that register, into an argument register or into a     *)
(* scratch register whose value it stores to the stack.                     *)
(***************************************************************************)
\* the i-th smallest element of a set of places
Nth(S, i) == CHOOSE k \in S : Cardinality({j \in S : j < k}) = i - 1

\* the places after the load of args[i - 1].value_ptr and before the next
\* such load or, for the last parameter, the call
ArgumentPlaces(loads, calls, i) ==
    {k \in (Nth(loads, i) + 1)..
            ((IF i < Cardinality(loads) THEN Nth(loads, i + 1)
              ELSE CHOOSE c \in calls : TRUE) - 1) : TRUE}

\* whether an x86-64 instruction reads memory through R10, and how many
\* bytes it reads
ReadsPointee(insn) ==
    insn.op \in {"load", "movzx", "movsx", "xmmload"} /\ insn.mod # MOD_REGISTER
        /\ insn.rm = R10
ReadWidth(insn) == IF insn.op \in {"movzx", "movsx"} THEN insn.imm[1] ELSE insn.size

\* the reads of the pointee of parameter i (from 1) in an x86-64
\* trampoline: the kind of load, the offset, the bytes read and the bytes
\* of the register written
X86ArgumentLoads(a, insns, i) ==
    {[op |-> insns[k].op, off |-> insns[k].disp, width |-> ReadWidth(insns[k]),
      to |-> insns[k].size] :
        k \in {p \in ArgumentPlaces(PtrLoadsAt(a, insns), CallsAt(insns), i) :
                   ReadsPointee(insns[p])}}

\* the same for the words of an AAPCS64 trampoline; the kind is the word
\* without its destination register
Arm64ArgumentLoads(words, i) ==
    {[op |-> << words[k][1] - (words[k][1] % 32), words[k][2], words[k][3], words[k][4] >>,
      off |-> Arm64Access(words[k], ARM64_REG_X8).off,
      width |-> Arm64Access(words[k], ARM64_REG_X8).width,
      to |-> 0] :
        k \in {p \in ArgumentPlaces({q \in 1..Len(words) : IsArm64PtrLoad(words[q])},
                                    {q \in 1..Len(words) :
                                        words[q] = ARM64_BLR(ARM64_REG_X16)}, i) :
                   Arm64Access(words[p], ARM64_REG_X8).kind \in {"load", "undefined"}}}

\* the loads of parameter i of the trampoline obj holds
ArgumentLoads(i) ==
    IF abi = "aapcs" THEN Arm64ArgumentLoads(Arm64Words(obj.code), i)
    ELSE X86ArgumentLoads(abi, Disassemble(obj.code, 0), i)

\* the offsets in the pointee that a set of loads reads
BytesRead(loads) == UNION {l.off..(l.off + l.width - 1) : l \in loads}

\* C24. Argument load width: on every ABI and for every parameter, in a
\* register or spilled to the stack, the trampoline reads from the
\* argument's pointee exactly the bytes of the parameter type's platform
\* width, and two parameters of one type, one in a register and one on the
\* stack, are loaded with the same width and extension.
ArgumentLoadWidth ==
    Published =>
        \A i \in 1..last.sig.num_params :
            /\ BytesRead(ArgumentLoads(i)) = 0..(Width(abi, last.sig.param_types[i]) - 1)
            /\ \A j \in 1..last.sig.num_params :
                  last.sig.param_types[j] = last.sig.param_types[i]
                      => ArgumentLoads(j) = ArgumentLoads(i)

\* the words of an AAPCS64 trampoline after its prologue that store through
\* X20, the return buffer pointer, or are undefined words of that group
Arm64RetStoresAt(words) ==
    {k \in 6..Len(words) :
        Arm64Access(words[k], ARM64_REG_X20).kind \in {"store", "undefined"}}

\* C25. Void return: for a signature whose return type is Void no generator
\* emits a store through the return-slot register, a call of such a
\* trampoline leaves the caller's return storage as it was, and
\* invoke_foreign_function with return_value_out == NULL and the right
\* number of arguments returns true.
VoidReturn ==
    /\ (Published /\ last.sig.return_type = "VOID")
          => IF abi = "aapcs" THEN Arm64RetStoresAt(Arm64Words(obj.code)) = {}
             ELSE RetStoresAt(abi, Disassemble(obj.code, 0)) = {}
    /\ (RanGenerated /\ last.sig.return_type = "VOID")
          => last.out.result = "true" /\ last.slot_after = last.slot_before
    /\ (Invoked /\ last.object = "generated" /\ last.sig.return_type = "VOID"
           /\ last.ret = "none" /\ last.num_args = last.sig.num_params)
          => last.out.result = "true" /\ last.out.entered = 1

\* the trampoline of void f(int, int) was invoked with no FFI_Argument for
\* the result and returned
VoidReturnWitness ==
    /\ Invoked
    /\ last.object = "generated"
    /\ last.sig \in VoidSigs
    /\ last.ret = "none"
    /\ last.num_args = 2
    /\ last.out.result = "true"
    /\ last.out.m.calls = 1

(***************************************************************************)
(* AL at the call of a SysV trampoline.                                     *)
(***************************************************************************)
\* whether an x86-64 instruction writes general register r or a part of it
WritesReg(insn, r) ==
    \/ insn.op \in {"load", "movzx", "movsx", "pop", "movimm"} /\ insn.reg = r
    \/ insn.op \in {"store", "add", "sub"} /\ insn.mod = MOD_REGISTER /\ insn.rm = r
    \/ insn.op \in {"addimm", "andimm"} /\ r = RAX

\* the places of "mov al, 0"
AlClearedAt(insns) ==
    {k \in 1..Len(insns) :
        insns[k].op = "movimm" /\ insns[k].size = 1 /\ insns[k].reg = RAX
        /\ insns[k].imm = << 0 >>}

\* AL is cleared before the call and not written again up to it
AlKeptUntilCall(insns) ==
    \E a \in AlClearedAt(insns) :
        \A c \in CallsAt(insns) :
            a < c /\ \A k \in (a + 1)..(c - 1) : ~WritesReg(insns[k], RAX)

\* C26. SysV AL convention: in the SysV trampoline AL is 0 at the moment
\* the indirect call of the target executes, for every signature, and no
\* instruction emitted between "mov al, 0" and the call changes AL.
SysvAlZero ==
    /\ (Published /\ abi = "sysv") => AlKeptUntilCall(Disassemble(obj.code, 0))
    /\ (Invoked /\ abi = "sysv" /\ last.object = "generated" /\ last.out.m.calls = 1)
          => last.out.m.atcall.gpr[RAX].b[1] = 0

(***************************************************************************)
(* What a trampoline leaves of its caller's registers.                      *)
(***************************************************************************)
\* the registers a function has to return with unchanged, RSP aside
CalleeSaved(a) == (0..15) \ (Volatile(a) \cup {RSP})
CalleeSavedXmm(a) == (0..15) \ VolatileXmm(a)

\* the registers the instructions at the places P push or pop, in order
RECURSIVE RegsAt(_, _)
RegsAt(insns, P) ==
    IF P = {} THEN << >>
    ELSE LET k == CHOOSE p \in P : \A q \in P : p <= q
         IN  << insns[k].reg >> \o RegsAt(insns, P \ {k})

\* a sequence in reverse
Reverse(s) == [k \in 1..Len(s) |-> s[Len(s) + 1 - k]]

\* the registers pushed before the call and popped after it
Pushed(insns) ==
    RegsAt(insns, {k \in 1..Len(insns) :
                      insns[k].op = "push" /\ \A c \in CallsAt(insns) : k < c})
Popped(insns) ==
    RegsAt(insns, {k \in PopsAt(insns) : \A c \in CallsAt(insns) : c < k})

\* the callee-saved registers that the instructions other than the pops
\* write
X86Written(a, insns) ==
    {r \in CalleeSaved(a) :
        \E k \in 1..Len(insns) : insns[k].op # "pop" /\ WritesReg(insns[k], r)}
X86WrittenXmm(a, insns) ==
    {x \in CalleeSavedXmm(a) :
        \E k \in 1..Len(insns) : insns[k].op = "xmmload" /\ insns[k].reg = x}

\* the prologue pushes every callee-saved register the code writes and the
\* epilogue pops the same registers in the opposite order
X86SavesWhatItWrites(a, insns) ==
    /\ \A r \in X86Written(a, insns) : \E k \in 1..Len(Pushed(insns)) : Pushed(insns)[k] = r
    /\ X86WrittenXmm(a, insns) = {}
    /\ Popped(insns) = Reverse(Pushed(insns))

\* the words of an AAPCS64 trampoline that load one of V8 .. V15, whose low
\* halves a function has to keep and which the prologue does not save
Arm64VectorWrites(words) ==
    {k \in 1..Len(words) :
        /\ Arm64Access(words[k], ARM64_REG_X8).kind = "load"
        /\ (words[k][4] \div 4) % 2 = 1
        /\ words[k][1] % 32 \in 8..15}

\* C27. Preserved state: for every signature and every ABI the trampoline
\* returns to its caller with the stack pointer, the frame pointer and every
\* callee-saved register of that ABI as they were at entry, and every
\* callee-saved register the emitted code writes is saved in the prologue
\* and restored in the epilogue in mirrored order.
PreservedState ==
    /\ (Invoked /\ abi \in {"sysv", "win64"} /\ last.object = "generated"
           /\ last.out.m.status = "returned")
          => /\ last.out.m.gpr[RSP] = PtrVal("stack", 0, 8)
             /\ \A r \in CalleeSaved(abi) : last.out.m.gpr[r] = PtrVal("entry", r, 0)
             /\ \A x \in CalleeSavedXmm(abi) : last.out.m.xmm[x] = [j \in 1..8 |-> 256 + x]
    /\ Published
          => IF abi = "aapcs" THEN Arm64VectorWrites(Arm64Words(obj.code)) = {}
             ELSE X86SavesWhatItWrites(abi, Disassemble(obj.code, 0))

(***************************************************************************)
(* The two passes of a generator over the parameters: the sizing pass that  *)
(* counts the stack slots to reserve, and the marshalling loop that emits   *)
(* the loads and the spill stores.                                          *)
(***************************************************************************)
\* the counters of the sizing pass after the first n parameters
SizedAfter(a, sig, n) ==
    CASE a = "sysv" -> SysvSizingPass(sig, 0, n, SizingStart(0))
      [] a = "win64" ->
            Win64SizingPass(sig, 0, n,
                            SizingStart(IF Win64ReturnStructByPointer(sig) THEN 1 ELSE 0))
      [] OTHER -> Arm64SizingPass(sig, 0, n, SizingStart(0))

\* the counters of the marshalling loop after the first n parameters
MarshalledAfter(a, sig, n) ==
    IF a = "win64" THEN Win64MarshalledAfter(sig, n) ELSE MarshalledBefore(a, sig, n + 1)

\* the passes count the same number of slots, and give a slot to the same
\* parameters
PassesAgree(a, sig) ==
    /\ SizedAfter(a, sig, sig.num_params).num_stack_args
          = MarshalledAfter(a, sig, sig.num_params).stack_arg_current_idx
    /\ \A p \in 1..sig.num_params :
          (SizedAfter(a, sig, p).num_stack_args > SizedAfter(a, sig, p - 1).num_stack_args)
          <=> (MarshalledAfter(a, sig, p).stack_arg_current_idx
                  > MarshalledAfter(a, sig, p - 1).stack_arg_current_idx)

\* at the call the stack holds the return address and the registers the
\* prologue pushed, as they were stored, and below them nothing outside the
\* bytes between RSP and the pushed registers
SpillsInsideReserved(at, pushed) ==
    /\ \A off \in DOMAIN at.stack :
          off <= 0 /\ (off < 0 - 8 * Len(pushed) => off >= at.gpr[RSP].off)
    /\ at.stack[0] = PtrVal("retaddr", 0, 0)
    /\ \A k \in 1..Len(pushed) :
          (0 - 8 * k) \in DOMAIN at.stack
          /\ at.stack[0 - 8 * k] = PtrVal("entry", pushed[k], 0)

\* C28. Two-pass consistency: in each generator, for every signature, the
\* sizing pass counts as many 8-byte stack slots as the marshalling pass
\* stores, each parameter gets the same register-or-stack decision in both
\* passes, and every spill store targets an offset inside the area the
\* emitted stack subtraction reserves, so that no store overwrites the saved
\* registers or the return address.
TwoPassConsistency ==
    /\ Published => PassesAgree(abi, last.sig)
    /\ (CalledOn("sysv") \/ CalledOn("win64"))
          => SpillsInsideReserved(last.out.m.atcall, Pushed(Disassemble(obj.code, 0)))

(***************************************************************************)
(* The displacements and immediates of an x86-64 trampoline, as the         *)
(* processor reads them: one byte each, sign-extended.                      *)
(***************************************************************************)
\* the bytes the generator computes for the stack subtraction
Reservation(a, sig) ==
    IF a = "sysv"
    THEN SysvStackSubtraction(SizedAfter(a, sig, sig.num_params).num_stack_args)
    ELSE Win64StackAlloc(SizedAfter(a, sig, sig.num_params).num_stack_args)

\* the places of "sub rsp, imm8" and "add rsp, imm8", and of the stores
\* before the call whose base is RSP
RspAdjustsAt(insns) ==
    {k \in 1..Len(insns) :
        insns[k].op \in {"sub", "add"} /\ insns[k].mod = MOD_REGISTER /\ insns[k].rm = RSP}
SpillStoresAt(insns) ==
    {k \in 1..Len(insns) :
        /\ insns[k].op \in {"store", "xmmstore"}
        /\ insns[k].mod # MOD_REGISTER
        /\ insns[k].rm = RSP
        /\ \A c \in CallsAt(insns) : k < c}

\* the loads of args[i].value_ptr are at 8 * i from the args base, the
\* spill stores at 8 * k from the first stack slot, and the immediates of
\* sub rsp and add rsp are the reservation
EncodedAsComputed(a, sig, insns) ==
    /\ \A i \in 1..Cardinality(PtrLoadsAt(a, insns)) :
          insns[Nth(PtrLoadsAt(a, insns), i)].disp = SizeofFFIArgument * (i - 1)
    /\ \A k \in 1..Cardinality(SpillStoresAt(insns)) :
          insns[Nth(SpillStoresAt(insns), k)].disp
             = (IF a = "win64" THEN 32 ELSE 0) + 8 * (k - 1)
    /\ \A k \in RspAdjustsAt(insns) : insns[k].imm = << Reservation(a, sig) >>
    /\ Cardinality(RspAdjustsAt(insns)) = IF Reservation(a, sig) > 0 THEN 2 ELSE 0

\* C29. Faithful 8-bit encodings on x86-64: for every parameter index i the
\* emitted load reads args[i].value_ptr at args base + 8 * i, for every
\* spilled slot k the emitted store targets stack base + 8 * k, and the
\* immediate of the emitted sub rsp and add rsp is the computed reservation;
\* no offset or immediate changes value when it is cast to one byte, for any
\* parameter count.
FaithfulEncodings ==
    (Published /\ abi \in {"sysv", "win64"})
        => EncodedAsComputed(abi, last.sig, Disassemble(obj.code, 0))

\* C30. NULL parameter list: create_ffi_function called with num_params > 0
\* and param_types == NULL never reads through param_types in any generator
\* pass, the sizing loop being guarded as the marshalling loop is; so the
\* call does not end the process.
NullParameterList ==
    (Generating /\ last.sig.num_params > 0 /\ last.sig.param_types = NullArray)
        => /\ ~generate_generic_trampoline(abi, last.sig).nullread
           /\ last.out.result # "crash"


=============================================================================
